---------------------------- MODULE Spec2Model ----------------------------
(***************************************************************************)
(* Model of the kaggleRAG answer pipeline of lightRAG:                     *)
(*   answer_parser.py      RAGAnswer, AnswerParser (the Extractor)         *)
(*   rag_retry.py          RAGRetryQuery (resolve), BatchRAGQuery          *)
(*   enhanced_rag_test.py  query_lightrag, test_single_question_sync       *)
(*   fill_test_set.py      query_lightrag, fill_single_question            *)
(*                                                                         *)
(* A Python str is a sequence of tokens.  A token is a run of characters   *)
(* that no regular expression of the parser can cut: a word, one           *)
(* punctuation character or one whitespace character.  Every literal of    *)
(* the parser's patterns is a sequence of whole tokens, so matching on     *)
(* tokens is matching on characters.  TLC's strings are ASCII, so a        *)
(* Chinese word is written zh_<pinyin>; TokLen gives its length in         *)
(* characters.                                                             *)
(***************************************************************************)
EXTENDS Naturals, Integers, Sequences, FiniteSets, TLC

VARIABLES
    mode,            \* which entry point runs: "extract", "resolve", "sync", "batch", "calls"
    rawText,         \* extract: response_text handed to parse_answer
    parsed,          \* extract: what parse_answer did with rawText
    questions,       \* the caller's questions, a sequence of [id, question]
    max_retries,     \* RAGRetryQuery.max_retries / the max_retries argument
    retry_delay,     \* RAGRetryQuery.retry_delay / the request_delay argument
    quality_threshold, \* per item: quality_threshold of the RAGRetryQuery that runs it
    has_callback,    \* process_batch: progress_callback is not None
    concurrent_limit, \* BatchRAGQuery.concurrent_limit
    batch_of,        \* per item: the call of process_batch it was handed to
    semaphore,       \* BatchRAGQuery.semaphore._value
    pc,              \* per item: where its coroutine (or call) stands
    attempt,         \* per item: the loop variable of the retry loop
    last_response,   \* per item: local last_response
    last_error,      \* per item: local last_error
    ask_calls,       \* per item: number of calls of rag.aquery / query_lightrag
    history,         \* per item: the outcomes of those calls, in order
    parse_calls,     \* per item: the arguments of the calls of parse_answer, in order
    sleeps,          \* per item: the delays slept so far, in order
    result,          \* per item: what query_with_retry (or the sync call) returned
    caught,          \* per item: e of the except clause of process_single_question
    callbacks,       \* per item: the progress_callback calls made, in order
    ret,             \* per item: what the task process_single_question returned or raised
    finished,        \* process_batch: the tasks that have ended, in the order they ended
    results,         \* process_batch: its local list results
    batch_pc,        \* process_batch: "gather" while waiting, "returned" after
    processed_results, \* process_batch: the list it returns
    call_arg,        \* a function called on its own: its argument
    call_out,        \* a function called on its own: what it returned
    call_next        \* what the function called on call_out returned

vars == <<mode, rawText, parsed, questions, max_retries, retry_delay, quality_threshold,
          has_callback, concurrent_limit, batch_of, semaphore, pc, attempt, last_response,
          last_error, ask_calls, history, parse_calls, sleeps, result, caught, callbacks, ret,
          finished, results, batch_pc, processed_results, call_arg, call_out,
          call_next>>

-----------------------------------------------------------------------------
(* Tokens *)

SP == " "
NL == "\n"
TAB == "\t"
QUOTE == "\""
APOS == "'"

\* str.strip() and the regex class \s
Whitespace == {SP, NL, TAB}

\* the characters str.strip('"\'') removes
QuoteChars == {QUOTE, APOS}

\* str.lower() and re.IGNORECASE, on a token
Lower(t) ==
    CASE t = "Answer" -> "answer"
      [] t = "ANSWER" -> "answer"
      [] t = "Value" -> "value"
      [] t = "Unit" -> "unit"
      [] t = "Reference" -> "reference"
      [] t = "ID" -> "id"
      [] t = "Supporting" -> "supporting"
      [] t = "Materials" -> "materials"
      [] t = "Explanation" -> "explanation"
      [] t = "Unable" -> "unable"
      [] t = "HTTP" -> "http"
      [] t = "The" -> "the"
      [] OTHER -> t

LowerSeq(s) == [i \in 1..Len(s) |-> Lower(s[i])]

\* len() of a token, in characters
TokLen(t) ==
    CASE t \in {SP, NL, TAB, QUOTE, APOS, ":", "{", "}", "[", "]", ",", ".", "x"} -> 1
      [] t \in {"to", "42", "ID", "id", "no", "q9", "Q9"} -> 2
      [] t \in {"The", "the", "...", "500"} -> 3
      [] t \in {"null", "None", "Unit", "unit", "doc1", "doc2", "HTTP", "http"} -> 4
      [] t \in {"Value", "value", "_unit", "units", "watts"} -> 5
      [] t \in {"Answer", "answer", "ANSWER", "Unable", "unable", "_value", "ref_id",
                "result"} -> 6
      [] t \in {"is_blank", "question"} -> 8
      [] t \in {"Reference", "reference", "Materials", "materials", "timed_out"} -> 9
      [] t \in {"Supporting", "supporting", "_materials", "connection"} -> 10
      [] t \in {"callback_error"} -> 14
      [] t \in {"Explanation", "explanation"} -> 11
      \* Chinese words, one character per syllable
      [] t \in {"zh_zhi"} -> 1
      [] t \in {"zh_daan", "zh_danwei", "zh_cankao", "zh_wenxian", "zh_zhicheng",
                "zh_cailiao", "zh_yinyong", "zh_jieshi"} -> 2
      [] t \in {"zh_wuxiangying"} -> 3
      [] t \in {"zh_chaxunshibai", "zh_chaxunyichang", "zh_jiexishibai",
                "zh_zuihouxiangying", "zh_chaxunchaoshi", "zh_lianjiecuowu"} -> 4
      [] t \in {"zh_geshijiexishibai"} -> 6
      \* the rest of the canonical refusal sentence, after "Unable to answer ":
      \* "with confidence based on the provided documents."
      [] t \in {"with_confidence_based_on_the_provided_documents."} -> 48
      \* str() of an exception raised by the code itself
      [] t \in {"validation_error", "attribute_error"} -> 90
      \* a run of 99 characters without whitespace or punctuation
      [] t \in {"blob99"} -> 99

RECURSIVE CharLen(_)
\* len() of a str
CharLen(s) == IF s = <<>> THEN 0 ELSE TokLen(Head(s)) + CharLen(Tail(s))

-----------------------------------------------------------------------------
(* str methods *)

RECURSIVE LStripSet(_, _)
LStripSet(s, chars) ==
    IF s = <<>> THEN s
    ELSE IF Head(s) \in chars THEN LStripSet(Tail(s), chars) ELSE s

RECURSIVE RStripSet(_, _)
RStripSet(s, chars) ==
    IF s = <<>> THEN s
    ELSE IF s[Len(s)] \in chars THEN RStripSet(SubSeq(s, 1, Len(s) - 1), chars) ELSE s

\* str.strip(chars)
StripSet(s, chars) == RStripSet(LStripSet(s, chars), chars)

\* str.strip()
Strip(s) == StripSet(s, Whitespace)

\* s[i:] for a 1-based i
From(s, i) == SubSeq(s, i, Len(s))

\* s.startswith(prefix)
StartsWith(s, prefix) ==
    Len(prefix) <= Len(s) /\ SubSeq(s, 1, Len(prefix)) = prefix

\* whether lit occurs in s at position p
OccursAt(s, p, lit) ==
    p >= 1 /\ p + Len(lit) - 1 <= Len(s) /\ SubSeq(s, p, p + Len(lit) - 1) = lit

\* lit in s
Contains(s, lit) == \E p \in 1..Len(s) : OccursAt(s, p, lit)

\* the positions of token t in s
Positions(s, t) == {i \in 1..Len(s) : s[i] = t}

Min(S) == CHOOSE m \in S : \A n \in S : m <= n
Max(S) == CHOOSE m \in S : \A n \in S : m >= n

RECURSIVE Split(_, _)
\* s.split(sep) for a one-character sep
Split(s, sep) ==
    IF Positions(s, sep) = {} THEN <<s>>
    ELSE LET p == Min(Positions(s, sep))
         IN  <<SubSeq(s, 1, p - 1)>> \o Split(From(s, p + 1), sep)

RECURSIVE CollapseWs(_)
\* re.sub(r'\s+', ' ', s)
CollapseWs(s) ==
    IF s = <<>> THEN s
    ELSE IF Head(s) \in Whitespace
         THEN <<SP>> \o CollapseWs(LStripSet(s, Whitespace))
         ELSE <<Head(s)>> \o CollapseWs(Tail(s))

-----------------------------------------------------------------------------
(* json.loads and json.dumps, on tokens.  A decoded value is a tagged      *)
(* record: [t |-> "str", v |-> tokens], [t |-> "null"], [t |-> "list",     *)
(* v |-> values], [t |-> "dict", v |-> <<key, value>> pairs in insertion   *)
(* order, keys unique].  The texts of the model hold no number, no true or *)
(* false and no backslash.                                                 *)

PyNone == [t |-> "null"]
PyStr(s) == [t |-> "str", v |-> s]
PyList(vs) == [t |-> "list", v |-> vs]
PyDict(kvs) == [t |-> "dict", v |-> kvs]

JsonFail == [ok |-> FALSE, val |-> PyNone, pos |-> 0]
JsonOk(val, pos) == [ok |-> TRUE, val |-> val, pos |-> pos]

\* the decoder's whitespace; the model's tokens hold no carriage return
JsonWs == {SP, NL, TAB}

\* the first position from p on that holds no whitespace (Len(s) + 1 if none)
SkipWs(s, p) ==
    LET rest == {i \in p..Len(s) : s[i] \notin JsonWs}
    IN  IF rest = {} THEN Len(s) + 1 ELSE Min(rest)

\* dict assignment d[k] = v: a repeated key keeps its place and takes the new value
DictPut(kvs, k, v) ==
    IF \E i \in 1..Len(kvs) : kvs[i][1] = k
    THEN [i \in 1..Len(kvs) |-> IF kvs[i][1] = k THEN <<k, v>> ELSE kvs[i]]
    ELSE Append(kvs, <<k, v>>)

\* a string starts at s[p] = QUOTE; strict mode rejects a control character in it
JsonString(s, p) ==
    LET closing == {i \in (p + 1)..Len(s) : s[i] = QUOTE}
    IN  IF closing = {} THEN JsonFail
        ELSE LET e == Min(closing)
                 body == SubSeq(s, p + 1, e - 1)
             IN  IF \E i \in 1..Len(body) : body[i] \in {NL, TAB}
                 THEN JsonFail
                 ELSE JsonOk(PyStr(body), e + 1)

RECURSIVE JsonValue(_, _)
RECURSIVE JsonMembers(_, _, _)
RECURSIVE JsonElements(_, _, _)

\* the members of an object, from a key at or after p on
JsonMembers(s, p, acc) ==
    LET q == SkipWs(s, p)
    IN  IF q > Len(s) \/ s[q] # QUOTE THEN JsonFail
        ELSE LET k == JsonString(s, q)
             IN  IF ~k.ok THEN JsonFail
                 ELSE LET c == SkipWs(s, k.pos)
                      IN  IF c > Len(s) \/ s[c] # ":" THEN JsonFail
                          ELSE LET v == JsonValue(s, c + 1)
                               IN  IF ~v.ok THEN JsonFail
                                   ELSE LET n == SkipWs(s, v.pos)
                                            acc2 == DictPut(acc, k.val.v, v.val)
                                        IN  IF n > Len(s) THEN JsonFail
                                            ELSE IF s[n] = "}" THEN JsonOk(PyDict(acc2), n + 1)
                                            ELSE IF s[n] = "," THEN JsonMembers(s, n + 1, acc2)
                                            ELSE JsonFail

\* the elements of an array, from a value at or after p on
JsonElements(s, p, acc) ==
    LET v == JsonValue(s, p)
    IN  IF ~v.ok THEN JsonFail
        ELSE LET n == SkipWs(s, v.pos)
                 acc2 == Append(acc, v.val)
             IN  IF n > Len(s) THEN JsonFail
                 ELSE IF s[n] = "]" THEN JsonOk(PyList(acc2), n + 1)
                 ELSE IF s[n] = "," THEN JsonElements(s, n + 1, acc2)
                 ELSE JsonFail

\* one JSON value at or after p
JsonValue(s, p) ==
    LET q == SkipWs(s, p)
    IN  IF q > Len(s) THEN JsonFail
        ELSE IF s[q] = QUOTE THEN JsonString(s, q)
        ELSE IF s[q] = "null" THEN JsonOk(PyNone, q + 1)
        ELSE IF s[q] = "{"
             THEN LET r == SkipWs(s, q + 1)
                  IN  IF r <= Len(s) /\ s[r] = "}" THEN JsonOk(PyDict(<<>>), r + 1)
                      ELSE JsonMembers(s, q + 1, <<>>)
        ELSE IF s[q] = "["
             THEN LET r == SkipWs(s, q + 1)
                  IN  IF r <= Len(s) /\ s[r] = "]" THEN JsonOk(PyList(<<>>), r + 1)
                      ELSE JsonElements(s, q + 1, <<>>)
        ELSE JsonFail

\* json.loads(s): ok is FALSE where it raises JSONDecodeError
JsonLoads(s) ==
    LET v == JsonValue(s, 1)
    IN  IF v.ok /\ SkipWs(s, v.pos) > Len(s) THEN v ELSE JsonFail

\* dict.get(key, default)
DictGet(d, key, default) ==
    IF \E i \in 1..Len(d.v) : d.v[i][1] = key
    THEN d.v[CHOOSE i \in 1..Len(d.v) : d.v[i][1] = key][2]
    ELSE default

RECURSIVE JoinWith(_, _)
\* sep.join(parts)
JoinWith(parts, sep) ==
    IF parts = <<>> THEN <<>>
    ELSE IF Len(parts) = 1 THEN parts[1]
    ELSE parts[1] \o sep \o JoinWith(Tail(parts), sep)

\* the list written without the quotes of its elements: [a, b]
JsonDumpsListUnquoted(xs) ==
    <<"[">> \o JoinWith(xs, <<",", SP>>) \o <<"]">>

\* json.dumps of a list of str: ["a", "b"]
JsonDumpsList(xs) ==
    <<"[">> \o JoinWith([i \in 1..Len(xs) |-> <<QUOTE>> \o xs[i] \o <<QUOTE>>], <<",", SP>>)
            \o <<"]">>

\* repr() of a str: single quotes unless it holds one
ReprStr(s) ==
    IF \E i \in 1..Len(s) : s[i] = APOS
    THEN <<QUOTE>> \o s \o <<QUOTE>>
    ELSE <<APOS>> \o s \o <<APOS>>

RECURSIVE PyToStr(_)
\* str(v) of a value (a str is itself, an exception gives its message)
PyToStr(val) ==
    CASE val.t = "str" -> val.v
      [] val.t = "exc" -> val.v
      [] val.t = "null" -> <<"None">>
      [] val.t = "list" ->
            <<"[">> \o JoinWith([i \in 1..Len(val.v) |->
                                    IF val.v[i].t = "str" THEN ReprStr(val.v[i].v)
                                    ELSE PyToStr(val.v[i])], <<",", SP>>)
                    \o <<"]">>
      [] val.t = "dict" ->
            <<"{">> \o JoinWith([i \in 1..Len(val.v) |->
                                    ReprStr(val.v[i][1]) \o <<":", SP>> \o
                                    (IF val.v[i][2].t = "str" THEN ReprStr(val.v[i][2].v)
                                     ELSE PyToStr(val.v[i][2]))], <<",", SP>>)
                    \o <<"}">>

\* an exception object with str(e) = msg
PyExc(msg) == [t |-> "exc", v |-> msg]

\* bool(v) of a value: None, an empty str, list or dict are false
Truthy(val) ==
    CASE val.t = "null" -> FALSE
      [] val.t = "exc" -> TRUE
      [] OTHER -> val.v # <<>>

-----------------------------------------------------------------------------
(* RAGAnswer: the pydantic model and its validators *)

IS_BLANK == <<"is_blank">>

\* parse_ref_id for a stripped str s that is neither empty nor "is_blank";
\* decoded is json.loads(s)
ParseRefIdStr(s, decoded) ==
    IF s[1] = "[" /\ s[Len(s)] = "]" /\ decoded.ok
    THEN decoded.val
    ELSE IF \E i \in 1..Len(s) : s[i] = ","
         THEN PyList([i \in 1..Len(Split(s, ",")) |->
                         PyStr(StripSet(Strip(Split(s, ",")[i]), QuoteChars))])
         ELSE PyList(<<PyStr(StripSet(Strip(s), QuoteChars))>>)

\* @validator('ref_id', pre=True)
parse_ref_id(v) ==
    IF v.t = "str"
    THEN IF Strip(v.v) = IS_BLANK \/ Strip(v.v) = <<>> THEN PyList(<<>>)
         ELSE ParseRefIdStr(Strip(v.v), JsonLoads(Strip(v.v)))
    ELSE IF Truthy(v) THEN v ELSE PyList(<<>>)

\* the validators of answer_value, answer_unit, supporting_materials, explanation
parse_text_field(v) ==
    IF v.t = "str" THEN Strip(v.v)
    ELSE IF v.t # "null" THEN PyToStr(v)
    ELSE IS_BLANK

\* the field type List[str]: a list whose elements are all str
IsListOfStr(v) == v.t = "list" /\ \A i \in 1..Len(v.v) : v.v[i].t = "str"

NoRecord == [id |-> "", question |-> ""]

\* the model with an explanation that is "is_blank" left out of the record
RAGAnswerOmitsBlank(id, question, answer, answer_value, answer_unit, refs, supporting_materials, explanation) ==
    IF answer.t = "str" /\ IsListOfStr(refs)
    THEN [ok |-> TRUE,
          rec |-> IF explanation = IS_BLANK
                  THEN [id |-> id,
                        question |-> question,
                        answer |-> answer.v,
                        answer_value |-> answer_value,
                        answer_unit |-> answer_unit,
                        ref_id |-> [i \in 1..Len(refs.v) |-> refs.v[i].v],
                        supporting_materials |-> supporting_materials]
                  ELSE [id |-> id,
                        question |-> question,
                        answer |-> answer.v,
                        answer_value |-> answer_value,
                        answer_unit |-> answer_unit,
                        ref_id |-> [i \in 1..Len(refs.v) |-> refs.v[i].v],
                        supporting_materials |-> supporting_materials,
                        explanation |-> explanation]]
    ELSE [ok |-> FALSE, rec |-> NoRecord]

\* the model built from the values the validators returned; refs is what
\* parse_ref_id returned.  answer has no validator of its own: it must be a
\* str and is kept as it is.
RAGAnswerValidated(id, question, answer, answer_value, answer_unit, refs, supporting_materials, explanation) ==
    IF answer.t = "str" /\ IsListOfStr(refs)
    THEN [ok |-> TRUE,
          rec |-> [id |-> id,
                   question |-> question,
                   answer |-> answer.v,
                   answer_value |-> answer_value,
                   answer_unit |-> answer_unit,
                   ref_id |-> [i \in 1..Len(refs.v) |-> refs.v[i].v],
                   supporting_materials |-> supporting_materials,
                   explanation |-> explanation]]
    ELSE [ok |-> FALSE, rec |-> NoRecord]

\* RAGAnswer(...): ok is FALSE where pydantic raises ValidationError
RAGAnswer(id, question, answer, answer_value, answer_unit, ref_id, supporting_materials, explanation) ==
    RAGAnswerValidated(id, question, answer, parse_text_field(answer_value),
                       parse_text_field(answer_unit), parse_ref_id(ref_id),
                       parse_text_field(supporting_materials),
                       parse_text_field(explanation))

-----------------------------------------------------------------------------
(* AnswerParser: the patterns.  A pattern is                               *)
(*     <label> <skip>* (.+?) (?= \n <stop> | $ )     IGNORECASE | DOTALL   *)
(* given by the alternatives of its label, the characters skipped after    *)
(* the label and the alternatives that stop the value.  Literals are in    *)
(* lower case and are matched against the lowered text.                    *)

FieldNames == <<"answer", "answer_value", "answer_unit", "ref_id",
                "supporting_materials", "explanation">>

L_AnswerValue == <<"answer", SP, "value">>
L_AnswerUnit == <<"answer", SP, "unit">>
L_ReferenceId == <<"reference", SP, "id">>
L_SupportingMaterials == <<"supporting", SP, "materials">>
L_Explanation == <<"explanation">>

\* the patterns without the lookahead that stops a value at the next label
patternsNoLookahead(field) ==
    [labels |-> {(CASE field = "answer" -> <<"answer">>
                    [] field = "answer_value" -> L_AnswerValue
                    [] field = "answer_unit" -> L_AnswerUnit
                    [] field = "ref_id" -> L_ReferenceId
                    [] field = "supporting_materials" -> L_SupportingMaterials
                    [] field = "explanation" -> L_Explanation) \o <<":">>},
     skip |-> Whitespace, stops |-> {}]

\* self.patterns
patterns(field) ==
    CASE field = "answer" ->
            [labels |-> {<<"answer", ":">>}, skip |-> Whitespace,
             stops |-> {L_AnswerValue, L_AnswerUnit, L_ReferenceId,
                        L_SupportingMaterials, L_Explanation}]
      [] field = "answer_value" ->
            [labels |-> {L_AnswerValue \o <<":">>}, skip |-> Whitespace,
             stops |-> {L_AnswerUnit, L_ReferenceId, L_SupportingMaterials, L_Explanation}]
      [] field = "answer_unit" ->
            [labels |-> {L_AnswerUnit \o <<":">>}, skip |-> Whitespace,
             stops |-> {L_ReferenceId, L_SupportingMaterials, L_Explanation}]
      [] field = "ref_id" ->
            [labels |-> {L_ReferenceId \o <<":">>}, skip |-> Whitespace,
             stops |-> {L_SupportingMaterials, L_Explanation}]
      [] field = "supporting_materials" ->
            [labels |-> {L_SupportingMaterials \o <<":">>}, skip |-> Whitespace,
             stops |-> {L_Explanation}]
      [] field = "explanation" ->
            [labels |-> {L_Explanation \o <<":">>}, skip |-> Whitespace,
             stops |-> {}]

\* the stop words shared by the fallback patterns, from the one of ref_id on
FallbackStopsTail == {<<"supporting">>, <<"zh_zhicheng">>, <<"explanation">>, <<"zh_jieshi">>}
FallbackStopsRef == {<<"reference">>, <<"zh_cankao">>} \cup FallbackStopsTail

\* self.fallback_patterns: the label is followed by [:\s]*
fallback_patterns(field) ==
    CASE field = "answer" ->
            [labels |-> {<<"answer">>, <<"zh_daan">>}, skip |-> Whitespace \cup {":"},
             stops |-> {<<"answer">>, L_AnswerValue, <<"zh_daan">>, <<"zh_daan", "zh_zhi">>}
                       \cup FallbackStopsRef]
      [] field = "answer_value" ->
            [labels |-> {L_AnswerValue, <<"zh_daan", "zh_zhi">>},
             skip |-> Whitespace \cup {":"},
             stops |-> {L_AnswerUnit, <<"zh_daan", "zh_danwei">>} \cup FallbackStopsRef]
      [] field = "answer_unit" ->
            [labels |-> {L_AnswerUnit, <<"zh_daan", "zh_danwei">>},
             skip |-> Whitespace \cup {":"},
             stops |-> FallbackStopsRef]
      [] field = "ref_id" ->
            [labels |-> {L_ReferenceId, <<"zh_cankao", "id">>, <<"zh_cankao", "zh_wenxian">>},
             skip |-> Whitespace \cup {":"},
             stops |-> FallbackStopsTail]
      [] field = "supporting_materials" ->
            [labels |-> {L_SupportingMaterials, <<"zh_zhicheng", "zh_cailiao">>,
                         <<"zh_yinyong">>, <<"zh_cailiao">>},
             skip |-> Whitespace \cup {":"},
             stops |-> {<<"explanation">>, <<"zh_jieshi">>}]
      [] field = "explanation" ->
            [labels |-> {<<"explanation">>, <<"zh_jieshi">>},
             skip |-> Whitespace \cup {":"},
             stops |-> {}]

NoMatch == [found |-> FALSE, group1 |-> <<>>]

\* pattern.search(s): the leftmost match and its group(1).  The label must
\* be followed by at least one character; the skipped run is as long as it
\* can be while leaving one character to the group; the group is as short
\* as it can be, ending before "\n<stop>", at the end of s, or before the
\* newline that ends s.
Search(pat, s) ==
    LET low == LowerSeq(s)
        starts == {p \in 1..Len(s) :
                      \E lab \in pat.labels :
                          OccursAt(low, p, lab) /\ p + Len(lab) <= Len(s)}
    IN  IF starts = {} THEN NoMatch
        ELSE LET p == Min(starts)
                 lab == CHOOSE l \in pat.labels :
                            OccursAt(low, p, l) /\ p + Len(l) <= Len(s)
                 q == p + Len(lab)
                 kept == {i \in q..Len(s) : s[i] \notin pat.skip}
                 r == IF kept = {} THEN Len(s) ELSE Min(kept)
                 ends == {e \in r..Len(s) :
                             \/ e = Len(s)
                             \/ e = Len(s) - 1 /\ s[Len(s)] = NL
                             \/ /\ s[e + 1] = NL
                                /\ \E stop \in pat.stops : OccursAt(low, e + 2, stop)}
             IN  [found |-> TRUE, group1 |-> SubSeq(s, r, Min(ends))]

-----------------------------------------------------------------------------
(* AnswerParser.parse_answer.  Its outcome is a record returned, None      *)
(* returned, or an exception that leaves the call.                         *)

ParseNone == [kind |-> "none"]
ParseRaise(msg) == [kind |-> "raise", error |-> msg]
ParseRecord(r) == [kind |-> "record", rec |-> r]

K_answer == <<"answer">>
K_answer_value == <<"answer", "_value">>
K_answer_unit == <<"answer", "_unit">>
K_ref_id == <<"ref_id">>
K_supporting_materials == <<"supporting", "_materials">>
K_explanation == <<"explanation">>

\* re.search(r'\{.*\}', text, re.DOTALL): from the first "{" to the last "}"
JsonSpan(text) ==
    LET opens == Positions(text, "{")
        closes == Positions(text, "}")
    IN  IF opens # {} /\ closes # {} /\ Min(opens) < Max(closes)
        THEN [found |-> TRUE, group0 |-> SubSeq(text, Min(opens), Max(closes))]
        ELSE [found |-> FALSE, group0 |-> <<>>]

\* _try_parse_json, from json_data on: the ValidationError of RAGAnswer is
\* not caught and leaves the method
TryParseJsonBuilt(built) ==
    IF built.ok THEN ParseRecord(built.rec) ELSE ParseRaise(<<"validation_error">>)

\* the record built with the id and the question the object holds, where it
\* holds them
TryParseJsonDataOwnId(json_data, question_id, question_text) ==
    TryParseJsonBuilt(
        RAGAnswer(IF DictGet(json_data, <<"id">>, PyNone).t = "str"
                  THEN DictGet(json_data, <<"id">>, PyNone).v[1] ELSE question_id,
                  IF DictGet(json_data, <<"question">>, PyNone).t = "str"
                  THEN DictGet(json_data, <<"question">>, PyNone).v[1] ELSE question_text,
                  DictGet(json_data, K_answer, PyStr(IS_BLANK)),
                  DictGet(json_data, K_answer_value, PyStr(IS_BLANK)),
                  DictGet(json_data, K_answer_unit, PyStr(IS_BLANK)),
                  DictGet(json_data, K_ref_id, PyList(<<>>)),
                  DictGet(json_data, K_supporting_materials, PyStr(IS_BLANK)),
                  DictGet(json_data, K_explanation, PyStr(IS_BLANK))))

\* _try_parse_json, from json_data on: the record is built with the
\* arguments question_id and question_text
TryParseJsonData(json_data, question_id, question_text) ==
    TryParseJsonBuilt(
        RAGAnswer(question_id, question_text,
                  DictGet(json_data, K_answer, PyStr(IS_BLANK)),
                  DictGet(json_data, K_answer_value, PyStr(IS_BLANK)),
                  DictGet(json_data, K_answer_unit, PyStr(IS_BLANK)),
                  DictGet(json_data, K_ref_id, PyList(<<>>)),
                  DictGet(json_data, K_supporting_materials, PyStr(IS_BLANK)),
                  DictGet(json_data, K_explanation, PyStr(IS_BLANK))))

\* _try_parse_json, from json.loads on: JSONDecodeError is caught
TryParseJsonDecoded(decoded, question_id, question_text) ==
    IF ~decoded.ok THEN ParseNone
    ELSE TryParseJsonData(decoded.val, question_id, question_text)

\* _try_parse_json, from the match on
TryParseJsonMatch(json_match, question_id, question_text) ==
    IF ~json_match.found THEN ParseNone
    ELSE TryParseJsonDecoded(JsonLoads(json_match.group0), question_id, question_text)

\* AnswerParser._try_parse_json
try_parse_json(text, question_id, question_text) ==
    TryParseJsonMatch(JsonSpan(text), question_id, question_text)

\* a field's value from the match of its pattern and of its fallback pattern
FieldValueOf(match, fallback_match) ==
    IF match.found THEN CollapseWs(Strip(match.group1))
    ELSE IF fallback_match.found THEN CollapseWs(Strip(fallback_match.group1))
    ELSE IS_BLANK

\* the loop over self.patterns: the value of one field, "is_blank" if neither
\* its pattern nor its fallback pattern matches
FieldValue(field, cleaned_text) ==
    FieldValueOf(Search(patterns(field), cleaned_text),
                 Search(fallback_patterns(field), cleaned_text))

UNABLE_TO_ANSWER == <<"unable", SP, "to", SP, "answer">>

\* "Unable to answer with confidence based on the provided documents."
REFUSAL_ANSWER == <<"Unable", SP, "to", SP, "answer", SP,
                    "with_confidence_based_on_the_provided_documents.">>

\* the least length a first line must exceed to be taken as the answer
MIN_FIRST_LINE == 10

\* parsed_data after the loop over the patterns
ParsedFields(cleaned_text) ==
    [f \in {FieldNames[i] : i \in 1..Len(FieldNames)} |-> FieldValue(f, cleaned_text)]

\* the special case with the phrase looked for in the text as it is
RefusalCaseSensitive(parsed_data, cleaned_text) ==
    IF (\A f \in DOMAIN parsed_data : parsed_data[f] = IS_BLANK)
       /\ Contains(cleaned_text, UNABLE_TO_ANSWER)
    THEN [parsed_data EXCEPT !["answer"] = REFUSAL_ANSWER]
    ELSE parsed_data

\* the special case of "unable to answer": every field is blank and the
\* text holds the phrase
Refusal(parsed_data, cleaned_text) ==
    IF (\A f \in DOMAIN parsed_data : parsed_data[f] = IS_BLANK)
       /\ Contains(LowerSeq(cleaned_text), UNABLE_TO_ANSWER)
    THEN [parsed_data EXCEPT !["answer"] = REFUSAL_ANSWER]
    ELSE parsed_data

\* the first line taken as the answer; potential_answer is lines[0].strip()
FirstLine(parsed_data, potential_answer) ==
    IF parsed_data["answer"] = IS_BLANK
       /\ CharLen(potential_answer) > MIN_FIRST_LINE
       /\ ~StartsWith(potential_answer, <<"{">>)
       /\ ~StartsWith(potential_answer, <<"Answer", ":">>)
    THEN [parsed_data EXCEPT !["answer"] = potential_answer]
    ELSE parsed_data

\* parsed_data after the loop and the two special cases
ParsedData(cleaned_text) ==
    FirstLine(Refusal(ParsedFields(cleaned_text), cleaned_text),
              Strip(Split(cleaned_text, NL)[1]))

\* the end of parse_answer: a ValidationError of RAGAnswer is caught and
\* None is returned
ParseFieldsBuilt(built) ==
    IF built.ok THEN ParseRecord(built.rec) ELSE ParseNone

\* the end of parse_answer, from parsed_data on
ParseFieldsData(parsed_data, question_id, question_text) ==
    IF parsed_data["answer"] # IS_BLANK
    THEN ParseFieldsBuilt(RAGAnswer(question_id, question_text,
                                    PyStr(parsed_data["answer"]),
                                    PyStr(parsed_data["answer_value"]),
                                    PyStr(parsed_data["answer_unit"]),
                                    PyStr(parsed_data["ref_id"]),
                                    PyStr(parsed_data["supporting_materials"]),
                                    PyStr(parsed_data["explanation"])))
    ELSE ParseNone

\* parse_answer after the JSON attempt
ParseFields(cleaned_text, question_id, question_text) ==
    ParseFieldsData(ParsedData(cleaned_text), question_id, question_text)

\* the test of the empty response without the strip
IsEmptyResponseNoStrip(response_text) == ~Truthy(response_text)

\* if not response_text or not response_text.strip(), for a str or None
IsEmptyResponse(response_text) ==
    ~Truthy(response_text) \/ Strip(response_text.v) = <<>>

\* the labeled fields tried before the embedded object
ParseAfterJsonFieldsFirst(json_result, cleaned_text, question_id, question_text) ==
    IF ParseFields(cleaned_text, question_id, question_text).kind = "record"
    THEN ParseFields(cleaned_text, question_id, question_text)
    ELSE json_result

\* parse_answer, from the result of _try_parse_json on
ParseAfterJson(json_result, cleaned_text, question_id, question_text) ==
    IF json_result.kind # "none" THEN json_result
    ELSE ParseFields(cleaned_text, question_id, question_text)

\* parse_answer, from cleaned_text on
ParseCleaned(cleaned_text, question_id, question_text) ==
    ParseAfterJson(try_parse_json(cleaned_text, question_id, question_text),
                   cleaned_text, question_id, question_text)

\* AnswerParser.parse_answer(response_text, question_id, question_text);
\* response_text is a str or None
parse_answer(response_text, question_id, question_text) ==
    IF IsEmptyResponse(response_text) THEN ParseNone
    ELSE ParseCleaned(Strip(response_text.v), question_id, question_text)

\* the stages parse_answer enters on its way, in order: "json" is
\* _try_parse_json, "patterns" the loop over the patterns and what follows
parse_answer_stages(response_text, question_id, question_text) ==
    IF IsEmptyResponse(response_text) THEN <<>>
    ELSE IF try_parse_json(Strip(response_text.v), question_id, question_text).kind # "none"
         THEN <<"json">>
         ELSE <<"json", "patterns">>

\* format_answer_for_csv(answer): the row of eight columns
format_answer_for_csv(answer) ==
    <<answer.id, answer.question, answer.answer, answer.answer_value, answer.answer_unit,
      IF answer.ref_id # <<>> THEN JsonDumpsList(answer.ref_id) ELSE <<"[", "]">>,
      answer.supporting_materials, answer.explanation>>

\* the column of the row that holds ref_id
CSV_REF_ID == 6

-----------------------------------------------------------------------------
(* RAGRetryQuery *)

\* "查询失败", the answer of a failure record
QUERY_FAILED == <<"zh_chaxunshibai">>
\* "解析失败"
PARSE_FAILED == <<"zh_jiexishibai">>
\* "格式解析失败", passed as last_error when the last attempt did not parse
FORMAT_FAILED == <<"zh_geshijiexishibai">>
\* "无响应"
NO_RESPONSE == <<"zh_wuxiangying">>
\* "最后响应: "
LAST_RESPONSE_PREFIX == <<"zh_zuihouxiangying", ":", SP>>

\* the number of characters of last_response kept in a failure record
TRUNCATE_AT == 200

RECURSIVE TakeChars(_, _)
\* s[:n], for an s in which character n ends a token
TakeChars(s, n) ==
    IF s = <<>> \/ TokLen(Head(s)) > n THEN <<>>
    ELSE <<Head(s)>> \o TakeChars(Tail(s), n - TokLen(Head(s)))

\* the failure record with the reason kept out of supporting_materials
create_failure_record_no_reason(question_id, question, response, error) ==
    RAGAnswer(question_id, question, PyStr(QUERY_FAILED), PyStr(IS_BLANK),
              PyStr(IS_BLANK), PyList(<<>>), PyStr(IS_BLANK),
              PyStr(IF Truthy(error) THEN QUERY_FAILED \o <<":", SP>> \o PyToStr(error)
                    ELSE PARSE_FAILED)).rec

\* the failure record with the whole of the response as explanation
create_failure_record_untruncated(question_id, question, response, error) ==
    RAGAnswer(question_id, question, PyStr(QUERY_FAILED), PyStr(IS_BLANK),
              PyStr(IS_BLANK), PyList(<<>>),
              PyStr(IF Truthy(error) THEN QUERY_FAILED \o <<":", SP>> \o PyToStr(error)
                    ELSE PARSE_FAILED),
              PyStr(IF Truthy(response) THEN response.v ELSE NO_RESPONSE)).rec

\* RAGRetryQuery._create_failure_record (EnhancedRAGTester and TestSetFiller
\* hold copies of it)
create_failure_record(question_id, question, response, error) ==
    LET error_info == IF Truthy(error)
                      THEN QUERY_FAILED \o <<":", SP>> \o PyToStr(error)
                      ELSE PARSE_FAILED
        explanation == IF Truthy(response) /\ CharLen(response.v) > TRUNCATE_AT
                       THEN LAST_RESPONSE_PREFIX \o TakeChars(response.v, TRUNCATE_AT)
                                                 \o <<"...">>
                       ELSE IF Truthy(response) THEN response.v
                       ELSE NO_RESPONSE
    IN  RAGAnswer(question_id, question, PyStr(QUERY_FAILED), PyStr(IS_BLANK),
                  PyStr(IS_BLANK), PyList(<<>>), PyStr(error_info), PyStr(explanation)).rec

\* the loop with one pass too many
InRangeOffByOne(att, maxr) == att <= maxr + 1

\* for attempt in range(self.max_retries + 1): the loop runs a pass for att
InRange(att, maxr) == att <= maxr

\* attempt < self.max_retries
AttemptsLeft(att, maxr) == att < maxr

\* the delay counted from the pass number starting at 0
BackoffDelayFromZero(delay, att) == delay * att

\* the delay that does not grow with the attempt
BackoffDelayFlat(delay, att) == delay

\* self.retry_delay * (attempt + 1)
BackoffDelay(delay, att) == delay * (att + 1)

\* if parsed_answer:
IsParsed(p) == p.kind = "record"

\* an outcome of the awaited rag.aquery: a value returned or an exception
AskReturns(val) == [kind |-> "return", val |-> val]
AskRaises(msg) == [kind |-> "raise", msg |-> msg]

NoValue == [id |-> "", question |-> ""]

\* what the coroutine does at the end of one pass of the retry loop, with
\* its locals: it returns val, sleeps delay and goes on to the next pass, or
\* goes on to the next pass at once
StepReturn(rec, response, error) ==
    [next |-> "return", val |-> rec, delay |-> 0, exc |-> PyNone,
     response |-> response, error |-> error]
StepSleep(d, response, error) ==
    [next |-> "sleep", val |-> NoValue, delay |-> d, exc |-> PyNone,
     response |-> response, error |-> error]
StepContinue(response, error) ==
    [next |-> "continue", val |-> NoValue, delay |-> 0, exc |-> PyNone,
     response |-> response, error |-> error]

\* the last attempt did not parse: return the record of a format failure
FormatExhausted(q, response, error) ==
    StepReturn(create_failure_record(q.id, q.question, response, PyStr(FORMAT_FAILED)),
               response, error)

\* the code after the loop: the failure record that is returned once the
\* loop has run out
LoopExhausted(q, response, error) ==
    create_failure_record(q.id, q.question, response, error)

\* the pass with a retry of a parsed answer that has no answer_value
LoopBodyQualityGated(q, att, maxr, delay, response, error, p) ==
    IF p.kind = "record"
    THEN IF p.rec.answer_value = IS_BLANK /\ att < maxr
         THEN StepSleep(delay * (att + 1), response, error)
         ELSE StepReturn(p.rec, response, error)
    ELSE IF p.kind = "none"
         THEN IF att < maxr
              THEN StepSleep(delay * (att + 1), response, error)
              ELSE FormatExhausted(q, response, error)
    ELSE IF att < maxr
         THEN StepSleep(delay * (att + 1), response, PyExc(p.error))
         ELSE StepContinue(response, PyExc(p.error))

\* the pass from the result p of parse_answer on; response and error are
\* last_response and last_error at that point
LoopBodyParsed(q, att, maxr, delay, response, error, p) ==
    IF IsParsed(p) THEN StepReturn(p.rec, response, error)
    ELSE IF p.kind = "none"
         THEN IF AttemptsLeft(att, maxr)
              THEN StepSleep(BackoffDelay(delay, att), response, error)
              ELSE FormatExhausted(q, response, error)
    ELSE IF AttemptsLeft(att, maxr)
         THEN StepSleep(BackoffDelay(delay, att), response, PyExc(p.error))
         ELSE StepContinue(response, PyExc(p.error))

\* the arguments of the calls of parse_answer, had the pass turned an
\* exception of the awaited call into a text for parse_answer
ParseArgumentsSynthesized(o) ==
    <<IF o.kind = "return" THEN o.val ELSE PyStr(<<"Error", ":", " ">> \o o.msg)>>

\* the arguments of the calls of parse_answer in one pass of the loop whose
\* awaited call ended with outcome o: parse_answer follows the await inside
\* the try block, so an exception of the call skips it
ParseArguments(o) ==
    IF o.kind = "return" THEN <<o.val>> ELSE <<>>

\* the pass without the except clause: an exception of the call leaves
\* query_with_retry
LoopBodyNoExcept(q, att, maxr, delay, response, error, o) ==
    IF o.kind = "return"
    THEN LoopBodyParsed(q, att, maxr, delay, o.val, error,
                        parse_answer(o.val, q.id, q.question))
    ELSE [next |-> "raise", val |-> NoValue, delay |-> 0, exc |-> PyExc(o.msg),
          response |-> response, error |-> error]

\* One pass of the body of the retry loop of query_with_retry, from the
\* outcome o of the awaited call on.  An exception raised by parse_answer is
\* caught by the same except clause as one raised by the call.
LoopBody(q, att, maxr, delay, response, error, o) ==
    IF o.kind = "return"
    THEN LoopBodyParsed(q, att, maxr, delay, o.val, error,
                        parse_answer(o.val, q.id, q.question))
    ELSE LoopBodyParsed(q, att, maxr, delay, response, error, ParseRaise(o.msg))

-----------------------------------------------------------------------------
(* RAGRetryQuery._calculate_quality_score.  Scores are floats that are     *)
(* multiples of 0.05 up to rounding; they are counted in hundredths.        *)

\* max_score, 1.0
MAX_SCORE == 100
\* the increments 0.3, 0.2, 0.2, 0.15, 0.15
SCORE_ANSWER == 30
SCORE_REF_ID == 20
SCORE_ANSWER_VALUE == 20
SCORE_SUPPORTING_MATERIALS == 15
SCORE_EXPLANATION == 15

\* s and s != "is_blank"
IsSet(s) == s # <<>> /\ s # IS_BLANK

\* the score with the increment of explanation added whatever it holds
calculate_quality_score_explained(answer) ==
    Min({MAX_SCORE,
         (IF IsSet(answer.answer) THEN SCORE_ANSWER ELSE 0)
         + (IF answer.ref_id # <<>> THEN SCORE_REF_ID ELSE 0)
         + (IF IsSet(answer.answer_value) THEN SCORE_ANSWER_VALUE ELSE 0)
         + (IF IsSet(answer.supporting_materials) THEN SCORE_SUPPORTING_MATERIALS ELSE 0)
         + SCORE_EXPLANATION})

\* _calculate_quality_score(answer)
calculate_quality_score(answer) ==
    Min({MAX_SCORE,
         (IF IsSet(answer.answer) THEN SCORE_ANSWER ELSE 0)
         + (IF answer.ref_id # <<>> /\ answer.ref_id # <<>> THEN SCORE_REF_ID ELSE 0)
         + (IF IsSet(answer.answer_value) THEN SCORE_ANSWER_VALUE ELSE 0)
         + (IF IsSet(answer.supporting_materials) THEN SCORE_SUPPORTING_MATERIALS ELSE 0)
         + (IF IsSet(answer.explanation) THEN SCORE_EXPLANATION ELSE 0)})

-----------------------------------------------------------------------------
(* BatchRAGQuery.get_statistics.  A float quotient a / b is kept as the     *)
(* pair of a and b.                                                         *)

\* the default of quality_threshold, 0.7, in hundredths
QUALITY_THRESHOLD == 70

\* a / b
Quotient(a, b) == [num |-> a, den |-> b]
\* the int 0
Zero == [num |-> 0, den |-> 1]

RECURSIVE SumOf(_)
\* sum(xs)
SumOf(xs) == IF xs = <<>> THEN 0 ELSE Head(xs) + SumOf(Tail(xs))

RECURSIVE SuccessfulOf(_)
\* [r for r in results if r.answer != "查询失败"]
SuccessfulOf(rs) ==
    IF rs = <<>> THEN <<>>
    ELSE IF Head(rs).answer # QUERY_FAILED
         THEN <<Head(rs)>> \o SuccessfulOf(Tail(rs))
         ELSE SuccessfulOf(Tail(rs))

\* quality_scores
QualityScores(successful) ==
    [i \in 1..Len(successful) |-> calculate_quality_score(successful[i])]

\* the returned dict, from total, successful and quality_scores on
StatisticsOf(total, successful, quality_scores) ==
    [total |-> total,
     successful |-> successful,
     failed |-> total - successful,
     success_rate |-> IF total > 0 THEN Quotient(successful, total) ELSE Zero,
     average_quality_score |->
         IF quality_scores # <<>> THEN Quotient(SumOf(quality_scores), Len(quality_scores))
         ELSE Zero,
     quality_threshold |-> QUALITY_THRESHOLD]

\* the statistics with the average taken over all the records
get_statistics_over_all(rs) ==
    StatisticsOf(Len(rs), Len(SuccessfulOf(rs)), QualityScores(rs))

\* get_statistics(results), rs being results
get_statistics(rs) ==
    StatisticsOf(Len(rs), Len(SuccessfulOf(rs)),
                 QualityScores(SuccessfulOf(rs)))

-----------------------------------------------------------------------------
(* query_lightrag (enhanced_rag_test.py, fill_test_set.py): the HTTP call  *)
(* of the synchronous orchestrators.  It never raises: every failure       *)
(* becomes a str.                                                          *)

HttpOk(response) == [kind |-> "ok", has_response |-> TRUE, response |-> response,
                     code |-> "200", cls |-> "", msg |-> <<>>]
HttpOkNoResponse == [kind |-> "ok", has_response |-> FALSE, response |-> PyNone,
                     code |-> "200", cls |-> "", msg |-> <<>>]
HttpStatus(code) == [kind |-> "status", has_response |-> FALSE, response |-> PyNone,
                     code |-> code, cls |-> "", msg |-> <<>>]
HttpException(cls, msg) == [kind |-> "exception", has_response |-> FALSE,
                            response |-> PyNone, code |-> "", cls |-> cls, msg |-> msg]

\* what query_lightrag returns for the outcome h of requests.post; m is the
\* module: "sync_test" (enhanced_rag_test.py) or "sync_fill" (fill_test_set.py)
query_lightrag(h, m) ==
    CASE h.kind = "ok" ->
            IF h.has_response THEN h.response ELSE PyStr(<<>>)
      [] h.kind = "status" ->
            PyStr(QUERY_FAILED \o <<":", SP, "HTTP", SP, h.code>>)
      [] h.kind = "exception" /\ m = "sync_fill" /\ h.cls = "Timeout" ->
            PyStr(<<"zh_chaxunchaoshi", ":", SP>> \o h.msg)
      [] h.kind = "exception" /\ m = "sync_fill" /\ h.cls = "ConnectionError" ->
            PyStr(<<"zh_lianjiecuowu", ":", SP>> \o h.msg)
      [] OTHER ->
            PyStr(<<"zh_chaxunyichang", ":", SP>> \o h.msg)

\* the external call failed: no HTTP 200 answer came back
IsTransportFailure(h) == h.kind # "ok"

-----------------------------------------------------------------------------
(* Inputs *)

\* the worked example of the parser
TEXT_EXAMPLE ==
    <<"Answer", ":", SP, "42", SP, "units", NL,
      "Answer", SP, "Value", ":", SP, "42", NL,
      "Answer", SP, "Unit", ":", SP, "units">>
\* a well-formed answer of low quality: the answer alone
TEXT_ANSWER_ONLY == <<"Answer", ":", SP, "42">>
\* a text no stage finds an answer in
TEXT_UNPARSABLE == <<"no">>
\* {"answer": null}
TEXT_JSON_NULL_ANSWER == <<"{", QUOTE, "answer", QUOTE, ":", SP, "null", "}">>
\* {"answer_value": "42"}
TEXT_JSON_NO_ANSWER == <<"{", QUOTE, "answer", "_value", QUOTE, ":", SP, QUOTE, "42", QUOTE, "}">>
\* {"answer": "42 units", "ref_id": ["doc1"]}
TEXT_JSON_ANSWER ==
    <<"{", QUOTE, "answer", QUOTE, ":", SP, QUOTE, "42", SP, "units", QUOTE, ",", SP,
      QUOTE, "ref_id", QUOTE, ":", SP, "[", QUOTE, "doc1", QUOTE, "]", "}">>

\* {"answer": "x", "answer_value": null, "ref_id": "doc1"}
TEXT_JSON_NULL_VALUE ==
    <<"{", QUOTE, "answer", QUOTE, ":", SP, QUOTE, "x", QUOTE, ",", SP,
      QUOTE, "answer", "_value", QUOTE, ":", SP, "null", ",", SP,
      QUOTE, "ref_id", QUOTE, ":", SP, QUOTE, "doc1", QUOTE, "}">>

\* a JSON string literal
JsonStringText(v) == <<QUOTE>> \o v \o <<QUOTE>>

\* the text of an object with the six keys of the older wire format
JsonObjectText(answer, answer_value, refs) ==
    <<"{">> \o JsonStringText(K_answer) \o <<":", SP>> \o JsonStringText(answer)
    \o <<",", SP>> \o JsonStringText(K_answer_value) \o <<":", SP>>
    \o JsonStringText(answer_value)
    \o <<",", SP>> \o JsonStringText(K_answer_unit) \o <<":", SP>>
    \o JsonStringText(<<"units">>)
    \o <<",", SP>> \o JsonStringText(K_ref_id) \o <<":", SP>> \o JsonDumpsList(refs)
    \o <<",", SP>> \o JsonStringText(K_supporting_materials) \o <<":", SP>>
    \o JsonStringText(<<"The", SP, "result">>)
    \o <<",", SP>> \o JsonStringText(K_explanation) \o <<":", SP>>
    \o JsonStringText(<<"x">>)
    \o <<"}">>

\* texts that hold such an object: alone, after a labeled line, before a
\* labeled line, and before a stray closing brace
ObjectTexts ==
    {prefix \o JsonObjectText(a, av, refs) \o suffix :
        prefix \in {<<>>, <<"Answer", ":", SP, "x", NL>>},
        a \in {<<"42", SP, "units">>, <<"x">>},
        av \in {<<"42">>, <<SP, "42">>},
        refs \in {<<>>, <<(<<"doc1">>)>>, <<(<<"doc1">>), (<<"doc2">>)>>},
        suffix \in {<<>>, <<NL, "Answer", SP, "Value", ":", SP, "x">>, <<SP, "}">>}}

\* the label of a field as a response writes it, in the vocabulary of
\* self.patterns ("primary") and in the Chinese one of self.fallback_patterns
LabelText(vocabulary, field) ==
    IF vocabulary = "primary"
    THEN CASE field = "answer" -> <<"Answer">>
           [] field = "answer_value" -> <<"Answer", SP, "Value">>
           [] field = "answer_unit" -> <<"Answer", SP, "Unit">>
           [] field = "ref_id" -> <<"Reference", SP, "ID">>
           [] field = "supporting_materials" -> <<"Supporting", SP, "Materials">>
           [] field = "explanation" -> <<"Explanation">>
    ELSE CASE field = "answer" -> <<"zh_daan">>
           [] field = "answer_value" -> <<"zh_daan", "zh_zhi">>
           [] field = "answer_unit" -> <<"zh_daan", "zh_danwei">>
           [] field = "ref_id" -> <<"zh_cankao", "ID">>
           [] field = "supporting_materials" -> <<"zh_zhicheng", "zh_cailiao">>
           [] field = "explanation" -> <<"zh_jieshi">>

\* the value a response gives a field; the one of supporting_materials
\* holds a run of two spaces
ValueText(field) ==
    CASE field = "answer" -> <<"42", SP, "units">>
      [] field = "answer_value" -> <<"42">>
      [] field = "answer_unit" -> <<"units">>
      [] field = "ref_id" -> <<"doc1">>
      [] field = "supporting_materials" -> <<"The", SP, SP, "result">>
      [] field = "explanation" -> <<"x">>

RECURSIVE LabeledTextFrom(_, _, _)
\* the lines "<label>: <value>" of the fields of FieldNames from index i on
\* that are in present, each on a line of its own
LabeledTextFrom(vocabulary, present, i) ==
    IF i > Len(FieldNames) THEN <<>>
    ELSE IF FieldNames[i] \notin present THEN LabeledTextFrom(vocabulary, present, i + 1)
    ELSE LabelText(vocabulary, FieldNames[i]) \o <<":", SP>> \o ValueText(FieldNames[i])
         \o (IF \E j \in (i + 1)..Len(FieldNames) : FieldNames[j] \in present
             THEN <<NL>> ELSE <<>>)
         \o LabeledTextFrom(vocabulary, present, i + 1)

\* a response made of labeled fields
LabeledText(vocabulary, present) == LabeledTextFrom(vocabulary, present, 1)

Vocabularies == {"primary", "fallback"}

FieldSets == (SUBSET {FieldNames[i] : i \in 1..Len(FieldNames)}) \ {{}}

LabeledTexts == {LabeledText(v, f) : v \in Vocabularies, f \in FieldSets}

\* the line "<label>: <value>" of a field
LabeledLine(vocabulary, field) ==
    LabelText(vocabulary, field) \o <<":", SP>> \o ValueText(field)

\* the responses made of the lines of two fields, the later field of
\* FieldNames first
ReorderedTexts ==
    UNION {{LabeledLine("primary", FieldNames[j]) \o <<NL>>
                \o LabeledLine("primary", FieldNames[i]) :
            j \in (i + 1)..Len(FieldNames)} : i \in 1..Len(FieldNames)}

\* responses around the phrase "unable to answer": the phrase alone, in
\* another letter case, after other words, the canonical sentence, the
\* phrase followed by a line, and the phrase broken by a line end
RefusalTexts ==
    {<<"Unable", SP, "to", SP, "answer">>,
     <<"unable", SP, "to", SP, "ANSWER">>,
     <<"x", SP, "unable", SP, "to", SP, "answer">>,
     REFUSAL_ANSWER,
     <<"Unable", SP, "to", SP, "answer", NL, "x">>,
     <<"unable", SP, "to", NL, "answer">>}

\* what a response writes after "Reference ID: " that is in brackets and is
\* not a list of strings: [null], and [doc1, doc2] without quotes
InvalidRefValues == {<<"[", "null", "]">>, <<"[", "doc1", ",", SP, "doc2", "]">>}

\* the response with the line of answer and a line of ref_id that holds r
AnswerAndRefText(r) ==
    LabeledLine("primary", "answer") \o <<NL>> \o LabelText("primary", "ref_id")
        \o <<":", SP>> \o r

InvalidRefTexts == {AnswerAndRefText(r) : r \in InvalidRefValues}

\* {"id": "q9", "question": "Q9", "answer": "42"}
TEXT_JSON_WITH_ID ==
    <<"{">> \o JsonStringText(<<"id">>) \o <<":", SP>> \o JsonStringText(<<"q9">>)
    \o <<",", SP>> \o JsonStringText(<<"question">>) \o <<":", SP>>
    \o JsonStringText(<<"Q9">>)
    \o <<",", SP>> \o JsonStringText(K_answer) \o <<":", SP>> \o JsonStringText(<<"42">>)
    \o <<"}">>
\* "id: q9\nquestion: Q9\nAnswer: 42"
TEXT_LABELED_WITH_ID ==
    <<"id", ":", SP, "q9", NL, "question", ":", SP, "Q9", NL, "Answer", ":", SP, "42">>

\* the greatest max_retries of a single call
MaxRetries == 3
\* the greatest max_retries of a batch
MaxBatchRetries == 1
\* the greatest number of questions of a batch
MaxQuestions == 2
\* the greatest concurrent_limit
MaxLimit == 2
\* the greatest retry_delay, in whole seconds
MaxDelay == 2
\* the greatest length of the enumerated raw texts, in tokens
MaxTextLen == 3

QuestionIds == <<"q1", "q2", "q3", "q4", "q5">>
QuestionTexts == <<"Q1", "Q2", "Q3", "Q4", "Q5">>

\* the first n questions
Questions(n) == [i \in 1..n |-> [id |-> QuestionIds[i], question |-> QuestionTexts[i]]]

\* a text of TRUNCATE_AT characters no stage finds an answer in: a first
\* line of one character and a line of 198
TEXT_AT_LIMIT == <<"x", NL, "blob99", "blob99">>
\* the same text with one character more
TEXT_OVER_LIMIT == TEXT_AT_LIMIT \o <<"x">>

\* the outcomes of rag.aquery a single call is run against
ResolveAskOutcomes ==
    {AskReturns(PyStr(t)) : t \in {TEXT_EXAMPLE, TEXT_ANSWER_ONLY, TEXT_UNPARSABLE,
                                   TEXT_JSON_NULL_ANSWER, <<>>}}
    \cup {AskReturns(PyNone), AskRaises(<<"timed_out">>), AskRaises(<<"connection">>)}

\* outcomes of rag.aquery that all make the pass fail, short and long
FailingAskOutcomes ==
    {AskReturns(PyStr(t)) : t \in {TEXT_UNPARSABLE, TEXT_AT_LIMIT, TEXT_OVER_LIMIT, <<>>}}
    \cup {AskReturns(PyNone), AskRaises(<<"timed_out">>)}

\* the values of quality_threshold, in hundredths, and the bound on
\* max_retries two calls are run side by side with
Thresholds == {0, QUALITY_THRESHOLD, MAX_SCORE}
MaxPairRetries == 1
\* the greatest number of calls of process_batch under way on one
\* BatchRAGQuery
MaxCalls == 2

\* the outcomes of rag.aquery two calls are run side by side against
PairAskOutcomes ==
    {AskReturns(PyStr(TEXT_EXAMPLE)), AskReturns(PyStr(TEXT_ANSWER_ONLY)),
     AskReturns(PyStr(TEXT_UNPARSABLE)), AskRaises(<<"timed_out">>)}

\* the outcomes of rag.aquery a batch is run against
BatchAskOutcomes ==
    {AskReturns(PyStr(TEXT_ANSWER_ONLY)), AskRaises(<<"timed_out">>)}

\* the outcomes of requests.post the synchronous orchestrators are run against
HttpOutcomes ==
    {HttpOk(PyStr(TEXT_EXAMPLE)), HttpOk(PyStr(TEXT_UNPARSABLE)), HttpOk(PyNone),
     HttpOkNoResponse, HttpStatus("500"),
     HttpException("Timeout", <<"timed_out">>),
     HttpException("ConnectionError", <<"connection">>),
     HttpException("Exception", <<"x">>)}

\* the tokens of the enumerated raw texts
TextAlphabet == {SP, NL, TAB, "{", "}", ":", QUOTE, "Answer", "answer", "42",
                 "null", "is_blank"}

\* the sequences over S of length at most n
SeqsUpTo(S, n) == UNION {[1..k -> S] : k \in 0..n}

\* the greatest number of tokens of a reference identifier
MaxIdLen == 1

\* the tokens of reference identifiers: none is a quote or a backslash,
\* which json.dumps would escape
IdAlphabet == {"doc1", "doc2", ",", SP, "]"}

RefIdentifiers == SeqsUpTo(IdAlphabet, MaxIdLen)

\* the lengths of the ref_id lists that are encoded
RefLengths == {0, 1, 3}

\* the ref_id lists that are encoded
RefIdLists == UNION {[1..n -> RefIdentifiers] : n \in RefLengths}

\* the tokens of the strings handed to the validator of ref_id
RefAlphabet == {"[", "]", ",", QUOTE, APOS, SP, "doc1", "doc2"}

\* the strings handed to the validator of ref_id: the short ones over
\* RefAlphabet, the sentinel, and lists of two identifiers written as a JSON
\* array, in brackets without quotes, with quotes and bare
RefIdStrings ==
    SeqsUpTo(RefAlphabet, MaxTextLen)
    \cup {IS_BLANK, <<SP>> \o IS_BLANK \o <<SP>>,
          JsonDumpsList(<<(<<"doc1">>), (<<"doc2">>)>>),
          JsonDumpsListUnquoted(<<(<<"doc1">>), (<<"doc2">>)>>),
          <<"[", "doc1", ",", "doc2", "]">>,
          <<QUOTE, "doc1", QUOTE, ",", SP, QUOTE, "doc2", QUOTE>>,
          <<"doc2", ",", SP, "doc1">>,
          <<SP, APOS, "doc1", APOS, SP>>}

\* a record that holds refs as its ref_id
RecordWithRefs(refs) ==
    [id |-> "q1", question |-> "Q1", answer |-> <<"42", SP, "units">>,
     answer_value |-> <<"42">>, answer_unit |-> <<"units">>, ref_id |-> refs,
     supporting_materials |-> IS_BLANK, explanation |-> IS_BLANK]

\* the values of a text field of a scored record: empty, the sentinel, set
ScoredTexts == {<<>>, IS_BLANK, <<"x">>}

\* the records whose quality is scored
ScoredRecords ==
    {[id |-> "q1", question |-> "Q1", answer |-> a, answer_value |-> av,
      answer_unit |-> IS_BLANK, ref_id |-> refs, supporting_materials |-> sm,
      explanation |-> ex] :
        a \in ScoredTexts, av \in ScoredTexts, refs \in {<<>>, <<(<<"doc1">>)>>},
        sm \in ScoredTexts, ex \in ScoredTexts}

\* the greatest number of records handed to get_statistics
MaxResults == 3

\* the records get_statistics is run against: a failure record, and
\* records of quality 1.0, 0.5, 0.3 and 0.2
StatsRecords ==
    {create_failure_record("q1", "Q1", PyNone, PyExc(<<"timed_out">>)),
     [id |-> "q1", question |-> "Q1", answer |-> <<"42", SP, "units">>,
      answer_value |-> <<"42">>, answer_unit |-> <<"units">>, ref_id |-> <<(<<"doc1">>)>>,
      supporting_materials |-> <<"x">>, explanation |-> <<"x">>],
     [id |-> "q1", question |-> "Q1", answer |-> <<"42", SP, "units">>,
      answer_value |-> <<"42">>, answer_unit |-> IS_BLANK, ref_id |-> <<>>,
      supporting_materials |-> IS_BLANK, explanation |-> IS_BLANK],
     [id |-> "q1", question |-> "Q1", answer |-> <<"x">>,
      answer_value |-> IS_BLANK, answer_unit |-> IS_BLANK, ref_id |-> <<>>,
      supporting_materials |-> IS_BLANK, explanation |-> IS_BLANK],
     [id |-> "q1", question |-> "Q1", answer |-> IS_BLANK,
      answer_value |-> <<"42">>, answer_unit |-> IS_BLANK, ref_id |-> <<>>,
      supporting_materials |-> IS_BLANK, explanation |-> IS_BLANK]}

\* the raw texts parse_answer is run against
RawTexts ==
    {PyStr(t) : t \in SeqsUpTo(TextAlphabet, MaxTextLen)}
    \cup {PyStr(t) : t \in {TEXT_EXAMPLE, TEXT_ANSWER_ONLY, TEXT_UNPARSABLE,
                            TEXT_JSON_NULL_ANSWER, TEXT_JSON_NO_ANSWER, TEXT_JSON_ANSWER,
                            TEXT_JSON_NULL_VALUE}}
    \cup {PyStr(t) : t \in ObjectTexts}
    \cup {PyStr(t) : t \in LabeledTexts}
    \cup {PyStr(t) : t \in ReorderedTexts}
    \cup {PyStr(t) : t \in RefusalTexts}
    \cup {PyStr(t) : t \in InvalidRefTexts}
    \cup {PyStr(TEXT_JSON_WITH_ID), PyStr(TEXT_LABELED_WITH_ID)}
    \cup {PyNone}

-----------------------------------------------------------------------------
(* Initial states *)

Items == 1..Len(questions)

Unset == [kind |-> "unset"]
Returned(val) == [kind |-> "return", val |-> val]
Raised(e) == [kind |-> "raise", exc |-> e]

NotParsed == [out |-> [kind |-> "pending"], stages |-> <<>>]

\* the state before qs are worked on under entry point m
Start(m, qs, first_pc) ==
    /\ mode = m
    /\ questions = qs
    /\ quality_threshold \in [1..Len(qs) -> IF m = "pair" THEN Thresholds
                                            ELSE {QUALITY_THRESHOLD}]
    /\ batch_of \in IF m = "calls" THEN [1..Len(qs) -> 1..MaxCalls]
                     ELSE {[i \in 1..Len(qs) |-> 1]}
    /\ pc = [i \in 1..Len(qs) |-> first_pc]
    /\ attempt = [i \in 1..Len(qs) |-> 0]
    /\ last_response = [i \in 1..Len(qs) |-> PyNone]
    /\ last_error = [i \in 1..Len(qs) |-> PyNone]
    /\ ask_calls = [i \in 1..Len(qs) |-> 0]
    /\ history = [i \in 1..Len(qs) |-> <<>>]
    /\ parse_calls = [i \in 1..Len(qs) |-> <<>>]
    /\ sleeps = [i \in 1..Len(qs) |-> <<>>]
    /\ result = [i \in 1..Len(qs) |-> Unset]
    /\ caught = [i \in 1..Len(qs) |-> PyNone]
    /\ callbacks = [i \in 1..Len(qs) |-> <<>>]
    /\ ret = [i \in 1..Len(qs) |-> Unset]
    /\ finished = <<>>
    /\ results = <<>>
    /\ processed_results = <<>>

\* no function is called on its own
NoCall == call_arg = PyNone /\ call_out = Unset /\ call_next = Unset

\* parse_answer is about to be called on a raw text
InitExtract ==
    /\ Start("extract", <<>>, "created")
    /\ rawText \in RawTexts
    /\ parsed = NotParsed
    /\ max_retries = 0 /\ retry_delay = 1 /\ has_callback = FALSE
    /\ concurrent_limit = 1 /\ semaphore = 1 /\ batch_pc = "none"
    /\ NoCall

\* RAGRetryQuery(rag, max_retries, retry_delay).query_with_retry(question, id)
\* is entered
InitResolve ==
    /\ Start("resolve", Questions(1), "attempt")
    /\ rawText = PyNone /\ parsed = NotParsed
    /\ max_retries \in 0..MaxRetries
    /\ retry_delay \in 1..MaxDelay
    /\ has_callback = FALSE
    /\ concurrent_limit = 1 /\ semaphore = 1 /\ batch_pc = "none"
    /\ NoCall

\* two RAGRetryQuery that differ at most in quality_threshold enter
\* query_with_retry for the same question
InitPair ==
    /\ Start("pair", <<Questions(1)[1], Questions(1)[1]>>, "attempt")
    /\ rawText = PyNone /\ parsed = NotParsed
    /\ max_retries \in 0..MaxPairRetries
    /\ retry_delay = 1
    /\ has_callback = FALSE
    /\ concurrent_limit = 1 /\ semaphore = 1 /\ batch_pc = "none"
    /\ NoCall

\* test_single_question_sync or fill_single_question is entered
InitSync ==
    /\ \E m \in {"sync_test", "sync_fill"} : Start(m, Questions(1), "attempt")
    /\ rawText = PyNone /\ parsed = NotParsed
    /\ max_retries \in 0..MaxRetries
    /\ retry_delay \in 1..MaxDelay
    /\ has_callback = FALSE
    /\ concurrent_limit = 1 /\ semaphore = 1 /\ batch_pc = "none"
    /\ NoCall

\* BatchRAGQuery(rag, max_retries, retry_delay, threshold, concurrent_limit)
\* .process_batch(questions, None, progress_callback) has created its tasks
InitBatch ==
    /\ \E n \in 0..MaxQuestions : Start("batch", Questions(n), "created")
    /\ rawText = PyNone /\ parsed = NotParsed
    /\ max_retries \in 0..MaxBatchRetries
    /\ retry_delay = 1
    /\ has_callback \in BOOLEAN
    /\ concurrent_limit \in 1..MaxLimit
    /\ semaphore = concurrent_limit
    /\ batch_pc = "gather"
    /\ NoCall

\* one BatchRAGQuery(rag, max_retries, retry_delay, threshold, concurrent_limit)
\* on which MaxCalls calls of process_batch(questions) are under way, their
\* tasks created
InitCalls ==
    /\ \E n \in 0..MaxQuestions : Start("calls", Questions(n), "created")
    \* the calls are numbered from the one the first question was handed to
    /\ \A i \in 1..Len(questions) : i = 1 => batch_of[i] = 1
    /\ rawText = PyNone /\ parsed = NotParsed
    /\ max_retries \in 0..MaxBatchRetries
    /\ retry_delay = 1
    /\ has_callback = FALSE
    /\ concurrent_limit \in 1..MaxLimit
    /\ semaphore = concurrent_limit
    /\ batch_pc = [c \in 1..MaxCalls |-> "gather"]
    /\ NoCall

\* format_answer_for_csv is about to be called on a record
InitCsv ==
    /\ Start("csv", <<>>, "created")
    /\ rawText = PyNone /\ parsed = NotParsed
    /\ max_retries = 0 /\ retry_delay = 1 /\ has_callback = FALSE
    /\ concurrent_limit = 1 /\ semaphore = 1 /\ batch_pc = "none"
    /\ \E refs \in RefIdLists : call_arg = RecordWithRefs(refs)
    /\ call_out = Unset /\ call_next = Unset

\* RAGAnswer is about to be built with a str as ref_id
InitRefId ==
    /\ Start("ref_id", <<>>, "created")
    /\ rawText = PyNone /\ parsed = NotParsed
    /\ max_retries = 0 /\ retry_delay = 1 /\ has_callback = FALSE
    /\ concurrent_limit = 1 /\ semaphore = 1 /\ batch_pc = "none"
    /\ \E s \in RefIdStrings : call_arg = PyStr(s)
    /\ call_out = Unset /\ call_next = Unset

\* _calculate_quality_score is about to be called on a record
InitScore ==
    /\ Start("score", <<>>, "created")
    /\ rawText = PyNone /\ parsed = NotParsed
    /\ max_retries = 0 /\ retry_delay = 1 /\ has_callback = FALSE
    /\ concurrent_limit = 1 /\ semaphore = 1 /\ batch_pc = "none"
    /\ call_arg \in ScoredRecords
    /\ call_out = Unset /\ call_next = Unset

\* get_statistics is about to be called on a list of records
InitStats ==
    /\ Start("stats", <<>>, "created")
    /\ rawText = PyNone /\ parsed = NotParsed
    /\ max_retries = 0 /\ retry_delay = 1 /\ has_callback = FALSE
    /\ concurrent_limit = 1 /\ semaphore = 1 /\ batch_pc = "none"
    /\ call_arg \in SeqsUpTo(StatsRecords, MaxResults)
    /\ call_out = Unset /\ call_next = Unset

-----------------------------------------------------------------------------
(* Actions *)

config == <<mode, questions, max_retries, retry_delay, quality_threshold, has_callback,
           concurrent_limit, batch_of>>
extract_vars == <<rawText, parsed>>
batch_vars == <<results, batch_pc, processed_results>>
call_vars == <<call_arg, call_out, call_next>>

\* parse_answer(rawText, "q1", "Q1") is called and returns or raises
ParseAnswerCall ==
    /\ mode = "extract"
    /\ parsed = NotParsed
    /\ parsed' = [out |-> parse_answer(rawText, "q1", "Q1"),
                  stages |-> parse_answer_stages(rawText, "q1", "Q1")]
    /\ UNCHANGED <<config, call_vars, rawText, semaphore, pc, attempt, last_response, last_error,
                   ask_calls, history, parse_calls, sleeps, result, caught, callbacks, ret, finished,
                   batch_vars>>

\* the task enters without waiting for a free slot
AcquireNoWait(i) ==
    /\ mode = "batch"
    /\ pc[i] = "created"
    /\ semaphore' = semaphore - 1
    /\ pc' = [pc EXCEPT ![i] = "attempt"]
    /\ UNCHANGED <<config, call_vars, extract_vars, attempt, last_response, last_error, ask_calls,
                   history, parse_calls, sleeps, result, caught, callbacks, ret, finished, batch_vars>>

\* the task enters once a slot is free in a semaphore that process_batch made
\* for its own call
AcquirePerCall(i) ==
    /\ mode \in {"batch", "calls"}
    /\ pc[i] = "created"
    /\ Cardinality({j \in 1..Len(questions) :
                       batch_of[j] = batch_of[i] /\ pc[j] \notin {"created", "done"}})
           < concurrent_limit
    /\ semaphore' = semaphore - 1
    /\ pc' = [pc EXCEPT ![i] = "attempt"]
    /\ UNCHANGED <<config, call_vars, extract_vars, attempt, last_response, last_error, ask_calls,
                   history, parse_calls, sleeps, result, caught, callbacks, ret, finished, batch_vars>>

\* async with self.semaphore: task i enters once a slot is free
Acquire(i) ==
    /\ mode \in {"batch", "calls"}
    /\ pc[i] = "created"
    /\ semaphore > 0
    /\ semaphore' = semaphore - 1
    /\ pc' = [pc EXCEPT ![i] = "attempt"]
    /\ UNCHANGED <<config, call_vars, extract_vars, attempt, last_response, last_error, ask_calls,
                   history, parse_calls, sleeps, result, caught, callbacks, ret, finished, batch_vars>>

\* query_with_retry: a pass of the loop starts and awaits self.rag.aquery
Ask(i) ==
    /\ mode \in {"resolve", "pair", "batch", "calls"}
    /\ pc[i] = "attempt"
    /\ pc' = [pc EXCEPT ![i] = "asking"]
    /\ ask_calls' = [ask_calls EXCEPT ![i] = @ + 1]
    /\ UNCHANGED <<config, call_vars, extract_vars, semaphore, attempt, last_response, last_error,
                   history, parse_calls, sleeps, result, caught, callbacks, ret, finished, batch_vars>>

\* the task ends without giving its slot back
TaskEndsKeepsSlot(i, r) ==
    /\ ret' = [ret EXCEPT ![i] = r]
    /\ pc' = [pc EXCEPT ![i] = "done"]
    /\ semaphore' = semaphore
    /\ finished' = Append(finished, i)

\* the task keeps its slot when it ends by raising
TaskEndsKeepsSlotOnRaise(i, r) ==
    /\ ret' = [ret EXCEPT ![i] = r]
    /\ pc' = [pc EXCEPT ![i] = "done"]
    /\ semaphore' = IF r.kind = "raise" THEN semaphore ELSE semaphore + 1
    /\ finished' = Append(finished, i)

\* the task of item i ends with r: the end of the async with block releases
\* the slot
TaskEnds(i, r) ==
    /\ ret' = [ret EXCEPT ![i] = r]
    /\ pc' = [pc EXCEPT ![i] = "done"]
    /\ semaphore' = semaphore + 1
    /\ finished' = Append(finished, i)

\* query_with_retry of item i ends with r (returned or raised).  A single
\* call is over; in process_single_question the task goes on up to its next
\* await or its end.
AfterQuery(i, r) ==
    /\ result' = [result EXCEPT ![i] = r]
    /\ IF mode \notin {"batch", "calls"}
       THEN /\ pc' = [pc EXCEPT ![i] = "done"]
            /\ UNCHANGED <<caught, ret, semaphore, finished>>
       ELSE IF has_callback
            THEN /\ pc' = [pc EXCEPT ![i] = IF r.kind = "return" THEN "progress"
                                             ELSE "progress_failed"]
                 /\ caught' = [caught EXCEPT ![i] = IF r.kind = "raise" THEN r.exc ELSE @]
                 /\ UNCHANGED <<ret, semaphore, finished>>
            ELSE /\ caught' = [caught EXCEPT ![i] = IF r.kind = "raise" THEN r.exc ELSE @]
                 /\ TaskEnds(i, IF r.kind = "return" THEN r
                                ELSE Returned(create_failure_record(
                                         questions[i].id, questions[i].question,
                                         PyNone, r.exc)))

\* the loop of item i goes on to its next pass, or has run out and the code
\* after it returns the failure record
NextPass(i, response, error) ==
    /\ attempt' = [attempt EXCEPT ![i] = @ + 1]
    /\ IF InRange(attempt[i] + 1, max_retries)
       THEN /\ pc' = [pc EXCEPT ![i] = "attempt"]
            /\ UNCHANGED <<result, caught, ret, semaphore, finished>>
       ELSE AfterQuery(i, Returned(LoopExhausted(questions[i], response, error)))

\* the sleep with the slot of the item given back for its duration
BackoffSleepOutsideGate(i, delay) ==
    /\ pc' = [pc EXCEPT ![i] = "sleeping"]
    /\ sleeps' = [sleeps EXCEPT ![i] = Append(@, delay)]
    /\ semaphore' = IF mode = "batch" THEN semaphore + 1 ELSE semaphore
    /\ UNCHANGED <<attempt, result, caught, ret, finished>>

\* await asyncio.sleep(retry_delay): the coroutine of item i is suspended
\* where it stands, inside the async with block of its task
BackoffSleep(i, delay) ==
    /\ pc' = [pc EXCEPT ![i] = "sleeping"]
    /\ sleeps' = [sleeps EXCEPT ![i] = Append(@, delay)]
    /\ UNCHANGED <<attempt, result, caught, ret, semaphore, finished>>

\* the effect of one pass that ended as step on item i
ResponseStep(i, step) ==
    /\ last_response' = [last_response EXCEPT ![i] = step.response]
    /\ last_error' = [last_error EXCEPT ![i] = step.error]
    /\ CASE step.next = "sleep" -> BackoffSleep(i, step.delay)
         [] step.next = "continue" ->
              /\ NextPass(i, step.response, step.error)
              /\ UNCHANGED sleeps
         [] step.next = "return" ->
              /\ AfterQuery(i, Returned(step.val))
              /\ UNCHANGED <<attempt, sleeps>>
         [] OTHER ->
              /\ AfterQuery(i, Raised(step.exc))
              /\ UNCHANGED <<attempt, sleeps>>

\* the pass with last_response and last_error kept on the RAGRetryQuery the
\* items share, where the first item left them
ResponseSharedLocals(i, o) ==
    /\ mode \in {"resolve", "pair", "batch", "calls"}
    /\ pc[i] = "asking"
    /\ history' = [history EXCEPT ![i] = Append(@, o)]
    /\ parse_calls' = [parse_calls EXCEPT ![i] = @ \o ParseArguments(o)]
    /\ ResponseStep(i, LoopBody(questions[i], attempt[i], max_retries, retry_delay,
                                last_response[1], last_error[1], o))
    /\ UNCHANGED <<config, call_vars, extract_vars, ask_calls, callbacks, batch_vars>>

\* the pass with a retry of a parsed answer whose score is below
\* quality_threshold
ResponseQualityGated(i, o) ==
    /\ mode \in {"resolve", "pair", "batch", "calls"}
    /\ pc[i] = "asking"
    /\ history' = [history EXCEPT ![i] = Append(@, o)]
    /\ parse_calls' = [parse_calls EXCEPT ![i] = @ \o ParseArguments(o)]
    /\ ResponseStep(i, IF /\ o.kind = "return"
                          /\ IsParsed(parse_answer(o.val, questions[i].id,
                                                   questions[i].question))
                          /\ calculate_quality_score(
                                 parse_answer(o.val, questions[i].id,
                                              questions[i].question).rec)
                             < quality_threshold[i]
                          /\ AttemptsLeft(attempt[i], max_retries)
                       THEN StepSleep(BackoffDelay(retry_delay, attempt[i]), o.val,
                                      last_error[i])
                       ELSE LoopBody(questions[i], attempt[i], max_retries, retry_delay,
                                     last_response[i], last_error[i], o))
    /\ UNCHANGED <<config, call_vars, extract_vars, ask_calls, callbacks, batch_vars>>

\* query_with_retry: the awaited call ends with outcome o and the pass runs
\* up to the sleep or to the end of query_with_retry
Response(i, o) ==
    /\ mode \in {"resolve", "pair", "batch", "calls"}
    /\ pc[i] = "asking"
    /\ history' = [history EXCEPT ![i] = Append(@, o)]
    /\ parse_calls' = [parse_calls EXCEPT ![i] = @ \o ParseArguments(o)]
    /\ ResponseStep(i, LoopBody(questions[i], attempt[i], max_retries, retry_delay,
                                last_response[i], last_error[i], o))
    /\ UNCHANGED <<config, call_vars, extract_vars, ask_calls, callbacks, batch_vars>>

\* query_with_retry: asyncio.sleep ends, continue with the next pass
Wake(i) ==
    /\ mode \in {"resolve", "pair", "batch", "calls"}
    /\ pc[i] = "sleeping"
    /\ NextPass(i, last_response[i], last_error[i])
    /\ UNCHANGED <<config, call_vars, extract_vars, last_response, last_error, ask_calls,
                   history, parse_calls, sleeps, callbacks, batch_vars>>

CALLBACK_ERROR == PyExc(<<"callback_error">>)

\* a call progress_callback(question_id, len(results), total_questions, ok)
CallbackCall(i, ok) ==
    [id |-> questions[i].id, completed |-> Len(results), total |-> Len(questions),
     ok |-> ok]

\* process_single_question: await progress_callback(..., True) after
\* query_with_retry returned; the callback returns or raises
Progress(i, raises) ==
    /\ mode = "batch"
    /\ pc[i] = "progress"
    /\ callbacks' = [callbacks EXCEPT ![i] = Append(@, CallbackCall(i, TRUE))]
    /\ IF raises
       THEN /\ caught' = [caught EXCEPT ![i] = CALLBACK_ERROR]
            /\ pc' = [pc EXCEPT ![i] = "progress_failed"]
            /\ UNCHANGED <<ret, semaphore, finished>>
       ELSE /\ TaskEnds(i, result[i])
            /\ UNCHANGED caught
    /\ UNCHANGED <<config, call_vars, extract_vars, attempt, last_response, last_error, ask_calls,
                   history, parse_calls, sleeps, result, batch_vars>>

\* process_single_question, except clause: await progress_callback(..., False),
\* then return the failure record; an exception of the callback leaves the task
ProgressFailed(i, raises) ==
    /\ mode = "batch"
    /\ pc[i] = "progress_failed"
    /\ callbacks' = [callbacks EXCEPT ![i] = Append(@, CallbackCall(i, FALSE))]
    /\ TaskEnds(i, IF raises THEN Raised(CALLBACK_ERROR)
                   ELSE Returned(create_failure_record(
                            questions[i].id, questions[i].question, PyNone, caught[i])))
    /\ UNCHANGED <<config, call_vars, extract_vars, attempt, last_response, last_error, ask_calls,
                   history, parse_calls, sleeps, result, caught, batch_vars>>

\* the list with every item failed as soon as one task raised
ProcessedResultsAbort(qs, gathered) ==
    [i \in 1..Len(gathered) |->
        IF \E j \in 1..Len(gathered) : gathered[j].kind = "raise"
        THEN create_failure_record(qs[i].id, qs[i].question, PyNone,
                                   IF gathered[i].kind = "raise" THEN gathered[i].exc
                                   ELSE CALLBACK_ERROR)
        ELSE gathered[i].val]

\* the list process_batch builds from what gather returned
ProcessedResults(qs, gathered) ==
    [i \in 1..Len(gathered) |->
        IF gathered[i].kind = "raise"
        THEN create_failure_record(qs[i].id, qs[i].question, PyNone, gathered[i].exc)
        ELSE gathered[i].val]

\* the results in the order the tasks ended in
GatherInCompletionOrder(rets, done) == [k \in 1..Len(done) |-> rets[done[k]]]

\* what asyncio.gather(*tasks, return_exceptions=True) returns: the tasks'
\* results in the order of the tasks; done is the order the tasks ended in
GatherResults(rets, done) == [i \in 1..Len(rets) |-> rets[i]]

\* process_batch: gather returns once every task has ended; the exceptions
\* among the results are replaced and the list is returned
Gather ==
    /\ mode = "batch"
    /\ batch_pc = "gather"
    /\ \A i \in Items : pc[i] = "done"
    /\ results' = GatherResults(ret, finished)
    /\ processed_results' = ProcessedResults(questions, GatherResults(ret, finished))
    /\ batch_pc' = "returned"
    /\ UNCHANGED <<config, call_vars, extract_vars, semaphore, pc, attempt, last_response, last_error,
                   ask_calls, history, parse_calls, sleeps, result, caught, callbacks, ret, finished>>

\* the synchronous loop sleeping request_delay before every retry
SyncStepUnscaledDelay(i, step) ==
    /\ last_response' = [last_response EXCEPT ![i] = step.response]
    /\ last_error' = [last_error EXCEPT ![i] = step.error]
    /\ sleeps' = [sleeps EXCEPT ![i] = IF step.next = "sleep" THEN Append(@, retry_delay)
                                       ELSE @]
    /\ IF step.next \in {"sleep", "continue"}
       THEN NextPass(i, step.response, step.error)
       ELSE /\ AfterQuery(i, Returned(step.val))
            /\ UNCHANGED attempt

\* the items handed to call c of process_batch, in the order of its list
CallItems(c) == SelectSeq([i \in 1..Len(questions) |-> i], LAMBDA i : batch_of[i] = c)

\* call c of several calls of process_batch on one BatchRAGQuery: its gather
\* returns once every task of the call has ended; the exceptions among the
\* results are replaced and the list is returned
GatherCall(c) ==
    /\ mode = "calls"
    /\ batch_pc[c] = "gather"
    /\ \A i \in Items : batch_of[i] = c => pc[i] = "done"
    /\ results' = [d \in DOMAIN results \cup {c} |->
                       IF d = c THEN [k \in 1..Len(CallItems(c)) |-> ret[CallItems(c)[k]]]
                       ELSE results[d]]
    /\ processed_results' =
           [d \in DOMAIN processed_results \cup {c} |->
               IF d = c
               THEN ProcessedResults([k \in 1..Len(CallItems(c)) |-> questions[CallItems(c)[k]]],
                                     [k \in 1..Len(CallItems(c)) |-> ret[CallItems(c)[k]]])
               ELSE processed_results[d]]
    /\ batch_pc' = [batch_pc EXCEPT ![c] = "returned"]
    /\ UNCHANGED <<config, call_vars, extract_vars, semaphore, pc, attempt, last_response, last_error,
                   ask_calls, history, parse_calls, sleeps, result, caught, callbacks, ret, finished>>

\* the effect of one pass of the synchronous loop that ended as step: the
\* sleep is time.sleep, which blocks, and the loop goes on
SyncStep(i, step) ==
    /\ last_response' = [last_response EXCEPT ![i] = step.response]
    /\ last_error' = [last_error EXCEPT ![i] = step.error]
    /\ sleeps' = [sleeps EXCEPT ![i] = IF step.next = "sleep" THEN Append(@, step.delay)
                                       ELSE @]
    /\ IF step.next \in {"sleep", "continue"}
       THEN NextPass(i, step.response, step.error)
       ELSE /\ AfterQuery(i, Returned(step.val))
            /\ UNCHANGED attempt

\* test_single_question_sync / fill_single_question: one pass of the loop,
\* with outcome h of the HTTP call: query_lightrag, parse_answer, and then
\* return, or time.sleep and the next pass
SyncAttempt(i, h) ==
    /\ mode \in {"sync_test", "sync_fill"}
    /\ pc[i] = "attempt"
    /\ ask_calls' = [ask_calls EXCEPT ![i] = @ + 1]
    /\ history' = [history EXCEPT ![i] = Append(@, h)]
    /\ parse_calls' = [parse_calls EXCEPT ![i] =
                           @ \o ParseArguments(AskReturns(query_lightrag(h, mode)))]
    /\ SyncStep(i, LoopBody(questions[i], attempt[i], max_retries, retry_delay,
                            last_response[i], last_error[i],
                            AskReturns(query_lightrag(h, mode))))
    /\ UNCHANGED <<config, call_vars, extract_vars, callbacks, batch_vars>>

-----------------------------------------------------------------------------
(* Specifications *)

\* everything but call_out and call_next
not_call_result == <<config, call_arg, extract_vars, semaphore, pc, attempt, last_response,
                     last_error, ask_calls, history, parse_calls, sleeps, result, caught, callbacks, ret,
                     finished, batch_vars>>

\* format_answer_for_csv(call_arg) is called
FormatAnswerForCsvCall ==
    /\ mode = "csv"
    /\ call_out = Unset
    /\ call_out' = Returned(format_answer_for_csv(call_arg))
    /\ UNCHANGED <<not_call_result, call_next>>

\* the validator of ref_id is called on call_arg
RefIdValidatorCall ==
    /\ mode = "ref_id"
    /\ call_out = Unset
    /\ call_out' = Returned(parse_ref_id(call_arg))
    /\ UNCHANGED <<not_call_result, call_next>>

\* the ref_id column of the row is handed to the validator of ref_id
ParseRefIdCall ==
    /\ mode = "csv"
    /\ call_out # Unset
    /\ call_next = Unset
    /\ call_next' = Returned(parse_ref_id(PyStr(call_out.val[CSV_REF_ID])))
    /\ UNCHANGED <<not_call_result, call_out>>

\* _calculate_quality_score(call_arg) is called
QualityScoreCall ==
    /\ mode = "score"
    /\ call_out = Unset
    /\ call_out' = Returned(calculate_quality_score(call_arg))
    /\ UNCHANGED <<not_call_result, call_next>>

\* get_statistics(call_arg) is called
GetStatisticsCall ==
    /\ mode = "stats"
    /\ call_out = Unset
    /\ call_out' = Returned(get_statistics(call_arg))
    /\ UNCHANGED <<not_call_result, call_next>>

NextExtract == ParseAnswerCall

NextCsv == FormatAnswerForCsvCall \/ ParseRefIdCall

NextRefId == RefIdValidatorCall

NextScore == QualityScoreCall

NextStats == GetStatisticsCall

NextResolve ==
    \/ \E i \in Items : Ask(i)
    \/ \E i \in Items : \E o \in ResolveAskOutcomes : Response(i, o)
    \/ \E i \in Items : Wake(i)

NextPair ==
    \/ \E i \in Items : Ask(i)
    \/ \E i \in Items : \E o \in PairAskOutcomes : Response(i, o)
    \/ \E i \in Items : Wake(i)

NextFailing ==
    \/ \E i \in Items : Ask(i)
    \/ \E i \in Items : \E o \in FailingAskOutcomes : Response(i, o)
    \/ \E i \in Items : Wake(i)

NextSync == \E i \in Items : \E h \in HttpOutcomes : SyncAttempt(i, h)

NextBatch ==
    \/ \E i \in Items : Acquire(i)
    \/ \E i \in Items : Ask(i)
    \/ \E i \in Items : \E o \in BatchAskOutcomes : Response(i, o)
    \/ \E i \in Items : Wake(i)
    \/ \E i \in Items : \E raises \in BOOLEAN : Progress(i, raises)
    \/ \E i \in Items : \E raises \in BOOLEAN : ProgressFailed(i, raises)
    \/ Gather

NextCalls ==
    \/ \E i \in Items : Acquire(i)
    \/ \E i \in Items : Ask(i)
    \/ \E i \in Items : \E o \in BatchAskOutcomes : Response(i, o)
    \/ \E i \in Items : Wake(i)
    \/ \E c \in 1..MaxCalls : GatherCall(c)

\* parse_answer on one raw text
SpecExtract == InitExtract /\ [][NextExtract]_vars
\* one call of query_with_retry
SpecResolve == InitResolve /\ [][NextResolve]_vars
\* one call of query_with_retry in which every pass fails
SpecFailing == InitResolve /\ [][NextFailing]_vars
\* two calls of query_with_retry side by side
SpecPair == InitPair /\ [][NextPair]_vars
\* one call of test_single_question_sync or fill_single_question
SpecSync == InitSync /\ [][NextSync]_vars
\* one call of process_batch
SpecBatch == InitBatch /\ [][NextBatch]_vars
\* the steps of a batch the event loop takes by itself: everything but the
\* end of an awaited rag.aquery
Scheduled ==
    \/ \E i \in Items : Acquire(i)
    \/ \E i \in Items : Ask(i)
    \/ \E i \in Items : Wake(i)
    \/ \E i \in Items : \E raises \in BOOLEAN : Progress(i, raises)
    \/ \E i \in Items : \E raises \in BOOLEAN : ProgressFailed(i, raises)
    \/ Gather

\* every call of rag.aquery returns or raises in the end
EveryAskEnds == \A i \in 1..MaxQuestions : []<>(~(i \in Items /\ pc[i] = "asking"))

\* one call of process_batch on an event loop that does not stop while a task
\* is ready, with a rag whose aquery always ends
SpecBatchFair == InitBatch /\ [][NextBatch]_vars /\ WF_vars(Scheduled) /\ EveryAskEnds
\* several calls of process_batch on one BatchRAGQuery
SpecCalls == InitCalls /\ [][NextCalls]_vars
\* a record is written as a row and its ref_id column read back
SpecCsv == InitCsv /\ [][NextCsv]_vars
\* one call of the validator of ref_id
SpecRefId == InitRefId /\ [][NextRefId]_vars
\* one call of _calculate_quality_score
SpecScore == InitScore /\ [][NextScore]_vars
\* one call of get_statistics
SpecStats == InitStats /\ [][NextStats]_vars

\* any of the entry points that return answer records
InitRecords == InitExtract \/ InitResolve \/ InitBatch

NextRecords ==
    \/ mode = "extract" /\ NextExtract
    \/ mode = "resolve" /\ NextResolve
    \/ mode = "batch" /\ NextBatch

SpecRecords == InitRecords /\ [][NextRecords]_vars

-----------------------------------------------------------------------------
(* Properties of query_with_retry (resolve), under SpecResolve *)

\* extraction succeeds on the outcome o of an ask call for question q
Extractable(q, o) ==
    o.kind = "return" /\ parse_answer(o.val, q.id, q.question).kind = "record"

\* the ask call returned and extraction failed on what it returned
ExtractionFails(q, o) ==
    o.kind = "return" /\ parse_answer(o.val, q.id, q.question).kind # "record"

\* the fields of an answer record
RecordFields == {"id", "question", "answer", "answer_value", "answer_unit", "ref_id",
                 "supporting_materials", "explanation"}

C2_NoRetryOnSuccess ==
    \A i \in Items :
        \A k \in 1..Len(history[i]) :
            Extractable(questions[i], history[i][k])
            => /\ k = Len(history[i])
               /\ pc[i] = "done"
               /\ result[i] = Returned(parse_answer(history[i][k].val, questions[i].id,
                                                    questions[i].question).rec)
               /\ ask_calls[i] = k
               /\ Len(sleeps[i]) = k - 1

\* the first response holds an answer and nothing else (a record of low
\* quality), retries were left, and the call ended after one ask call
C2_Witness ==
    /\ mode = "resolve"
    /\ max_retries = MaxRetries
    /\ pc[1] = "done"
    /\ history[1] = <<AskReturns(PyStr(TEXT_ANSWER_ONLY))>>
    /\ ask_calls[1] = 1
    /\ sleeps[1] = <<>>
    /\ result[1].kind = "return"
    /\ result[1].val.answer = <<"42">>
    /\ result[1].val.answer_value = IS_BLANK

-----------------------------------------------------------------------------
(* Properties of the synchronous orchestrators, under SpecSync *)

\* C4: a transport failure of the HTTP call on an attempt is an attempt
\* failure: the call does not end on it while attempts remain, and when the
\* call ends on it, what is returned is the failure record.
C4_TransportFailureIsAttemptFailure ==
    \A i \in Items :
        (pc[i] = "done" /\ history[i] # <<>>
         /\ IsTransportFailure(history[i][Len(history[i])]))
        => /\ ask_calls[i] = max_retries + 1
           /\ result[i].kind = "return"
           /\ result[i].val.answer = QUERY_FAILED

-----------------------------------------------------------------------------
(* Properties of process_batch, under SpecBatch *)

\* the items inside query_with_retry
InFlight == {i \in Items : pc[i] \in {"attempt", "asking", "sleeping"}}

\* the items inside the async with block
Holders == {i \in Items : pc[i] \notin {"created", "done"}}

RECURSIVE Replay(_, _, _, _, _, _, _)
\* what query_with_retry returns for question q when it runs alone against
\* the ask outcomes hist, from pass att on
Replay(q, maxr, delay, hist, att, response, error) ==
    IF hist = <<>> THEN Unset
    ELSE LET step == LoopBody(q, att, maxr, delay, response, error, Head(hist))
         IN  CASE step.next = "return" -> Returned(step.val)
               [] step.next \in {"sleep", "continue"} ->
                     IF InRange(att + 1, maxr)
                     THEN Replay(q, maxr, delay, Tail(hist), att + 1,
                                 step.response, step.error)
                     ELSE Returned(LoopExhausted(q, step.response, step.error))
               [] OTHER -> Raised(step.exc)

\* C5: process_batch returns one record per question, and the record at
\* position i carries the id and the question of question i, whatever the
\* order the tasks ended in.
C5_BatchOrderAndCompleteness ==
    batch_pc = "returned"
    => /\ Len(processed_results) = Len(questions)
       /\ \A i \in Items :
             /\ processed_results[i].id = questions[i].id
             /\ processed_results[i].question = questions[i].question

\* the task of the second question ended before the task of the first, the
\* first having retried, and the batch returned
C5_Witness ==
    /\ batch_pc = "returned"
    /\ Len(questions) = 2
    /\ finished = <<2, 1>>
    /\ Len(sleeps[1]) > 0
    /\ processed_results[1].id = "q1"
    /\ processed_results[2].id = "q2"

\* C6: at most concurrent_limit items are inside query_with_retry, the
\* semaphore never goes below zero, and an item that has not entered the
\* semaphore has issued no ask call.
C6_ConcurrencyBound ==
    /\ Cardinality(InFlight) <= concurrent_limit
    /\ semaphore >= 0
    /\ \A i \in Items : pc[i] = "created" => ask_calls[i] = 0

\* every slot is taken by an item whose ask call is under way while another
\* item waits for a slot
C6_Witness ==
    /\ mode = "batch"
    /\ Cardinality(InFlight) = concurrent_limit
    /\ \A i \in InFlight : pc[i] = "asking"
    /\ semaphore = 0
    /\ \E i \in Items : pc[i] = "created"

\* C7: when the batch has returned, an item whose task raised has a failure
\* record with its own id and question; every item has an output; and the
\* output of an item whose task did not fail is what query_with_retry returns
\* for it alone on the same ask outcomes.
C7_OneBadItemNeverAborts ==
    batch_pc = "returned"
    => /\ Len(processed_results) = Len(questions)
       /\ \A i \in Items :
             /\ ret[i].kind = "raise"
                => /\ processed_results[i].answer = QUERY_FAILED
                   /\ processed_results[i].id = questions[i].id
                   /\ processed_results[i].question = questions[i].question
             /\ (ret[i].kind = "return" /\ caught[i] = PyNone)
                => Returned(processed_results[i]) =
                       Replay(questions[i], max_retries, retry_delay, history[i],
                              0, PyNone, PyNone)

\* the task of one item raised, the other item's answer was extracted, and
\* the batch returned both
C7_Witness ==
    /\ batch_pc = "returned"
    /\ \E i \in Items : /\ ret[i].kind = "raise"
                        /\ processed_results[i].answer = QUERY_FAILED
    /\ \E j \in Items : /\ ret[j].kind = "return"
                        /\ caught[j] = PyNone
                        /\ processed_results[j].answer = <<"42">>

\* C8: the free slots and the items inside the async with block always add
\* up to concurrent_limit (each acquire is matched by one release, on every
\* way out of the block), and once process_batch has returned every slot is
\* free.
C8_GateRelease ==
    mode = "batch"
    => /\ semaphore + Cardinality(Holders) = concurrent_limit
       /\ batch_pc = "returned" => semaphore = concurrent_limit

\* two items went through a gate of one slot, one task raised and the other
\* returned a failure record, and the slot is free after the batch returned
C8_Witness ==
    /\ batch_pc = "returned"
    /\ concurrent_limit = 1
    /\ Len(questions) = 2
    /\ semaphore = 1
    /\ \E i \in Items : ret[i].kind = "raise"
    /\ \E j \in Items : ret[j].kind = "return" /\ ret[j].val.answer = QUERY_FAILED

-----------------------------------------------------------------------------
(* Properties of parse_answer (extract), under SpecExtract *)

\* rawText is a str that is empty or holds whitespace only
IsBlankText == rawText.t = "str" /\ \A k \in 1..Len(rawText.v) : rawText.v[k] \in Whitespace

\* C9: every record parse_answer returns, by whichever stage, has an
\* answer other than "is_blank".
C9_RecordHasAnswer ==
    parsed.out.kind = "record" => parsed.out.rec.answer # IS_BLANK

\* C10: for a raw text that is empty or whitespace only, parse_answer
\* returns no record and enters no stage.
C10_BlankTextFailsFirst ==
    (parsed # NotParsed /\ IsBlankText)
    => /\ parsed.out.kind = "none"
       /\ parsed.stages = <<>>

\* parse_answer was called on a text of a space, a newline and a tab and
\* returned no record
C10_Witness ==
    /\ rawText = PyStr(<<SP, NL, TAB>>)
    /\ parsed.out.kind = "none"
    /\ parsed.stages = <<>>

\* the six keys of the embedded object
SixKeys == {K_answer, K_answer_value, K_answer_unit, K_ref_id, K_supporting_materials,
            K_explanation}

\* d is a decoded object that holds the six keys
HasSixKeys(d) ==
    d.t = "dict" /\ \A k \in SixKeys : \E i \in 1..Len(d.v) : d.v[i][1] = k

\* the well-formed objects with the six keys that text contains
EmbeddedObjects(text) ==
    {d \in {JsonLoads(SubSeq(text, i, j)).val :
               i \in Positions(text, "{"), j \in Positions(text, "}")} : HasSixKeys(d)}

\* the six fields of record r are the values of the decoded object d
EqualsDecoded(r, d) ==
    /\ PyStr(r.answer) = DictGet(d, K_answer, PyNone)
    /\ PyStr(r.answer_value) = DictGet(d, K_answer_value, PyNone)
    /\ PyStr(r.answer_unit) = DictGet(d, K_answer_unit, PyNone)
    /\ PyList([i \in 1..Len(r.ref_id) |-> PyStr(r.ref_id[i])]) = DictGet(d, K_ref_id, PyNone)
    /\ PyStr(r.supporting_materials) = DictGet(d, K_supporting_materials, PyNone)
    /\ PyStr(r.explanation) = DictGet(d, K_explanation, PyNone)

\* the six fields of record r are the values of the decoded object d, the
\* text fields other than answer without their surrounding whitespace
EqualsDecodedStripped(r, d) ==
    /\ PyStr(r.answer) = DictGet(d, K_answer, PyNone)
    /\ r.answer_value = Strip(DictGet(d, K_answer_value, PyNone).v)
    /\ r.answer_unit = Strip(DictGet(d, K_answer_unit, PyNone).v)
    /\ PyList([i \in 1..Len(r.ref_id) |-> PyStr(r.ref_id[i])]) = DictGet(d, K_ref_id, PyNone)
    /\ r.supporting_materials = Strip(DictGet(d, K_supporting_materials, PyNone).v)
    /\ r.explanation = Strip(DictGet(d, K_explanation, PyNone).v)

\* the values of the decoded object d are strings, ref_id a list of strings
HasStringValues(d) ==
    /\ \A k \in SixKeys \ {K_ref_id} : DictGet(d, k, PyNone).t = "str"
    /\ IsListOfStr(DictGet(d, K_ref_id, PyNone))

\* the text from the first opening to the last closing brace of text
BraceSpan(text) ==
    IF Positions(text, "{") # {} /\ Positions(text, "}") # {}
       /\ Min(Positions(text, "{")) < Max(Positions(text, "}"))
    THEN SubSeq(text, Min(Positions(text, "{")), Max(Positions(text, "}")))
    ELSE <<>>

\* C11 as stated: for a raw text that contains a well-formed object with
\* the six keys, parse_answer returns a record whose six fields equal the
\* decoded values of that object.
C11_Stage1EqualsDecoded ==
    (parsed # NotParsed /\ rawText.t = "str" /\ EmbeddedObjects(rawText.v) # {})
    => /\ parsed.out.kind = "record"
       /\ \E d \in EmbeddedObjects(rawText.v) : EqualsDecoded(parsed.out.rec, d)

\* C11 as amended: when the text from the first opening brace to the last
\* closing brace decodes as an object with the six keys and string values
\* (ref_id: a list of strings), parse_answer returns the record of the
\* decoded values, answer as it is and the other text fields stripped of
\* surrounding whitespace, whatever labeled fields the text holds as well.
C11_Stage1Precedence ==
    (parsed # NotParsed /\ rawText.t = "str"
     /\ JsonLoads(BraceSpan(rawText.v)).ok
     /\ HasSixKeys(JsonLoads(BraceSpan(rawText.v)).val)
     /\ HasStringValues(JsonLoads(BraceSpan(rawText.v)).val))
    => /\ parsed.out.kind = "record"
       /\ parsed.stages = <<"json">>
       /\ EqualsDecodedStripped(parsed.out.rec, JsonLoads(BraceSpan(rawText.v)).val)

\* the object follows the labeled line "Answer: x" and precedes the labeled
\* line "Answer Value: x"; the record holds the values of the object
C11_Witness ==
    /\ rawText = PyStr(<<"Answer", ":", SP, "x", NL>>
                       \o JsonObjectText(<<"42", SP, "units">>, <<SP, "42">>,
                                         <<(<<"doc1">>), (<<"doc2">>)>>)
                       \o <<NL, "Answer", SP, "Value", ":", SP, "x">>)
    /\ parsed.out.kind = "record"
    /\ parsed.out.rec.answer = <<"42", SP, "units">>
    /\ parsed.out.rec.answer_value = <<"42">>
    /\ parsed.out.rec.ref_id = <<(<<"doc1">>), (<<"doc2">>)>>

\* the value of field f in record r, ref_id as its sequence
RecordField(r, f) ==
    CASE f = "answer" -> r.answer
      [] f = "answer_value" -> r.answer_value
      [] f = "answer_unit" -> r.answer_unit
      [] f = "ref_id" -> r.ref_id
      [] f = "supporting_materials" -> r.supporting_materials
      [] f = "explanation" -> r.explanation

\* what a response made of the labeled fields in present is to give field f
ExpectedField(present, f) ==
    IF f \in present
    THEN IF f = "ref_id" THEN <<ValueText(f)>> ELSE CollapseWs(ValueText(f))
    ELSE IF f = "ref_id" THEN <<>> ELSE IS_BLANK

\* C12: for a raw text made of labeled fields of either vocabulary,
\* parse_answer returns a record that holds for each labeled field its
\* whitespace-collapsed value and for every other field "is_blank" (ref_id:
\* the empty sequence); no field is filled from the line of another label.
C12_LabeledFieldExtraction ==
    \A v \in Vocabularies, present \in FieldSets :
        (parsed # NotParsed /\ rawText = PyStr(LabeledText(v, present)))
        => /\ parsed.out.kind = "record"
           /\ \A i \in 1..Len(FieldNames) :
                  RecordField(parsed.out.rec, FieldNames[i])
                      = ExpectedField(present, FieldNames[i])

\* C13: parse_answer on "Answer: 42 units\nAnswer Value: 42\nAnswer Unit:
\* units" returns the record with answer "42 units", answer_value "42",
\* answer_unit "units", ref_id [], supporting_materials and explanation
\* "is_blank".
C13_WorkedExample ==
    (parsed # NotParsed /\ rawText = PyStr(TEXT_EXAMPLE))
    => /\ parsed.out.kind = "record"
       /\ parsed.out.rec.answer = <<"42", SP, "units">>
       /\ parsed.out.rec.answer_value = <<"42">>
       /\ parsed.out.rec.answer_unit = <<"units">>
       /\ parsed.out.rec.ref_id = <<>>
       /\ parsed.out.rec.supporting_materials = IS_BLANK
       /\ parsed.out.rec.explanation = IS_BLANK

\* parse_answer has run on the text of the example and left the stage of
\* the embedded object for the one of the labeled fields
C13_Witness ==
    /\ rawText = PyStr(TEXT_EXAMPLE)
    /\ parsed # NotParsed
    /\ parsed.stages = <<"json", "patterns">>

-----------------------------------------------------------------------------
(* More properties of query_with_retry, under SpecResolve *)

\* the last call of ask for item i raised or returned a text from which
\* extraction failed
LastAttemptFailed(i) ==
    /\ history[i] # <<>>
    /\ \/ history[i][Len(history[i])].kind = "raise"
       \/ ExtractionFails(questions[i], history[i][Len(history[i])])

AttemptFailed(i, k) ==
    \/ history[i][k].kind = "raise"
    \/ ExtractionFails(questions[i], history[i][k])

\* C20: the sleeps of query_with_retry are exactly those after the failed
\* attempts whose index is below max_retries, whether ask raised or
\* extraction failed, and the sleep after attempt index a lasts
\* retry_delay * (a + 1); none precedes the first attempt or follows the
\* final or a successful one, and exactly one precedes every later call of
\* ask.
C20_BackoffSchedule ==
    \A i \in Items :
        /\ \A k \in 1..Len(sleeps[i]) :
              /\ sleeps[i][k] = retry_delay * k
              /\ k <= Len(history[i]) /\ AttemptFailed(i, k) /\ k - 1 < max_retries
        /\ Len(sleeps[i])
               = Cardinality({k \in 1..Len(history[i]) :
                                 AttemptFailed(i, k) /\ k - 1 < max_retries})
        /\ ask_calls[i] = 0 => sleeps[i] = <<>>
        /\ pc[i] = "asking" => Len(sleeps[i]) = ask_calls[i] - 1
        /\ ask_calls[i] <= Len(sleeps[i]) + 1
        /\ pc[i] = "done" => Len(sleeps[i]) = Len(history[i]) - 1

\* max_retries = 2 and retry_delay = 2: ask raised, returned an unparsable
\* text and returned an answer; the call slept 2 and then 4
C20_Witness ==
    /\ mode = "resolve"
    /\ max_retries = 2 /\ retry_delay = 2
    /\ pc[1] = "done"
    /\ history[1] = <<AskRaises(<<"timed_out">>), AskReturns(PyStr(TEXT_UNPARSABLE)),
                      AskReturns(PyStr(TEXT_EXAMPLE))>>
    /\ sleeps[1] = <<2, 4>>

-----------------------------------------------------------------------------
(* Properties of format_answer_for_csv and parse_ref_id, under SpecCsv *)

\* C15: for every ref_id list of length 0, 1 or 3, the string that
\* format_answer_for_csv writes for it, decoded by parse_ref_id, is the
\* list again: the same elements in the same order.
C15_RefIdRoundTrip ==
    (mode = "csv" /\ call_next # Unset)
    => call_next.val = PyList([i \in 1..Len(call_arg.ref_id) |-> PyStr(call_arg.ref_id[i])])

\* a list of three identifiers, one of them a comma and one a closing
\* bracket, has been written and read back
C15_Witness ==
    /\ mode = "csv"
    /\ call_next # Unset
    /\ call_arg.ref_id = <<(<<"doc1">>), (<<",">>), (<<"]">>)>>
    /\ call_out.val[CSV_REF_ID] = <<"[", QUOTE, "doc1", QUOTE, ",", SP, QUOTE, ",", QUOTE,
                                    ",", SP, QUOTE, "]", QUOTE, "]">>

-----------------------------------------------------------------------------
(* Properties of every answer record, under SpecRecords *)

\* x is a str
IsStr(x) == x \in Seq(STRING)

\* the text fields of record r are strings and its ref_id is a sequence of
\* strings
WellFormedRecord(r) ==
    /\ DOMAIN r = RecordFields
    /\ IsStr(r.answer) /\ IsStr(r.answer_value) /\ IsStr(r.answer_unit)
    /\ IsStr(r.supporting_materials) /\ IsStr(r.explanation)
    /\ r.ref_id \in Seq(Seq(STRING))

\* C16: in every record that parse_answer, query_with_retry or
\* process_batch produces, answer, answer_value, answer_unit,
\* supporting_materials and explanation are strings, never None or absent,
\* and ref_id is a sequence, never a bare scalar: an embedded object with
\* answer_value null, no explanation and the bare string "doc1" as ref_id
\* gives "is_blank", "is_blank" and the sequence of "doc1".
C16_RecordInvariant ==
    /\ parsed.out.kind = "record" => WellFormedRecord(parsed.out.rec)
    /\ (parsed.out.kind = "record" /\ rawText = PyStr(TEXT_JSON_NULL_VALUE))
       => /\ parsed.out.rec.answer_value = IS_BLANK
          /\ parsed.out.rec.explanation = IS_BLANK
          /\ parsed.out.rec.ref_id = <<(<<"doc1">>)>>
    /\ \A i \in Items :
          /\ result[i].kind = "return" => WellFormedRecord(result[i].val)
          /\ ret[i].kind = "return" => WellFormedRecord(ret[i].val)
    /\ \A k \in 1..Len(processed_results) : WellFormedRecord(processed_results[k])

\* the embedded object gave answer_value as null and ref_id as a bare
\* string; the record holds "is_blank" and a sequence of one element
C16_Witness ==
    /\ rawText = PyStr(TEXT_JSON_NULL_VALUE)
    /\ parsed.out.kind = "record"
    /\ parsed.out.rec.answer_value = IS_BLANK
    /\ parsed.out.rec.ref_id = <<(<<"doc1">>)>>

-----------------------------------------------------------------------------
(* Properties of _calculate_quality_score, under SpecScore *)

\* the text t is set: neither empty nor "is_blank"
TextIsSet(t) == ~(t = <<>> \/ t = IS_BLANK)

\* the conditions of the score that record r meets, by their weight in
\* hundredths
ScoreTerms(r) ==
    <<IF TextIsSet(r.answer) THEN 30 ELSE 0,
      IF Len(r.ref_id) > 0 THEN 20 ELSE 0,
      IF TextIsSet(r.answer_value) THEN 20 ELSE 0,
      IF TextIsSet(r.supporting_materials) THEN 15 ELSE 0,
      IF TextIsSet(r.explanation) THEN 15 ELSE 0>>

\* C19: the score of a record is, in hundredths, the sum of 30 if answer
\* is set, 20 if ref_id is not empty, 20 if answer_value is set, 15 if
\* supporting_materials is set and 15 if explanation is set; it lies between
\* 0 and 100 and is 100 exactly when all five conditions hold.
C19_QualityScore ==
    (mode = "score" /\ call_out # Unset)
    => /\ call_out.val = ScoreTerms(call_arg)[1] + ScoreTerms(call_arg)[2]
                         + ScoreTerms(call_arg)[3] + ScoreTerms(call_arg)[4]
                         + ScoreTerms(call_arg)[5]
       /\ call_out.val \in 0..100
       /\ call_out.val = 100 <=> \A k \in 1..5 : ScoreTerms(call_arg)[k] > 0

\* a record with answer and answer_value set, no ref_id, supporting_materials
\* "is_blank" and an empty explanation was scored 0.5
C19_Witness ==
    /\ mode = "score"
    /\ call_out # Unset
    /\ call_arg.answer = <<"x">> /\ call_arg.answer_value = <<"x">>
    /\ call_arg.ref_id = <<>>
    /\ call_arg.supporting_materials = IS_BLANK /\ call_arg.explanation = <<>>
    /\ call_out.val = 50

-----------------------------------------------------------------------------
(* Properties of get_statistics, under SpecStats *)

\* the positions of the records of rs whose answer is not the failure marker
SuccessfulAt(rs) == {i \in 1..Len(rs) : rs[i].answer # QUERY_FAILED}

RECURSIVE ScoreSum(_, _)
\* the sum of the scores, in hundredths, of the records of rs at positions S
ScoreSum(rs, S) ==
    IF S = {} THEN 0
    ELSE LET i == CHOOSE j \in S : TRUE
         IN  SumOf(ScoreTerms(rs[i])) + ScoreSum(rs, S \ {i})

\* C18: get_statistics reports total = the number of records, successful =
\* the number of records whose answer is not "查询失败", failed = total -
\* successful, success_rate = successful / total, and 0 without a division
\* when total = 0, and as average quality the mean of the scores of the
\* successful records, 0 when there are none.
C18_Statistics ==
    (mode = "stats" /\ call_out # Unset)
    => /\ call_out.val.total = Len(call_arg)
       /\ call_out.val.successful = Cardinality(SuccessfulAt(call_arg))
       /\ call_out.val.failed = Len(call_arg) - Cardinality(SuccessfulAt(call_arg))
       /\ call_out.val.success_rate.den # 0
       /\ call_out.val.success_rate.num * Len(call_arg)
              = Cardinality(SuccessfulAt(call_arg)) * call_out.val.success_rate.den
       /\ Len(call_arg) = 0 => call_out.val.success_rate.num = 0
       /\ call_out.val.average_quality_score.den # 0
       /\ call_out.val.average_quality_score.num * Cardinality(SuccessfulAt(call_arg))
              = ScoreSum(call_arg, SuccessfulAt(call_arg))
                    * call_out.val.average_quality_score.den
       /\ SuccessfulAt(call_arg) = {} => call_out.val.average_quality_score.num = 0

\* a failure record between a record of quality 1.0 and one of quality 0.3:
\* two of three succeeded and their scores sum to 1.3
C18_Witness ==
    /\ mode = "stats"
    /\ call_out # Unset
    /\ Len(call_arg) = 3
    /\ call_arg[2].answer = QUERY_FAILED
    /\ call_out.val.total = 3 /\ call_out.val.successful = 2 /\ call_out.val.failed = 1
    /\ call_out.val.success_rate = Quotient(2, 3)
    /\ call_out.val.average_quality_score = Quotient(130, 2)

-----------------------------------------------------------------------------
(* Properties of the failure record of query_with_retry, under SpecResolve *)

\* the positions in the history of item i at which ask raised
RaisedAt(i) == {k \in 1..Len(history[i]) : history[i][k].kind = "raise"}

\* C21: whenever query_with_retry ends after a failed last attempt and ask
\* raised at least once during the call, supporting_materials of the failure
\* record holds the message of the last exception ask raised, whether the
\* last attempt raised or did not parse.
C21_LastErrorInFailureRecord ==
    \A i \in Items :
        (pc[i] = "done" /\ LastAttemptFailed(i) /\ RaisedAt(i) # {})
        => /\ result[i].kind = "return"
           /\ Contains(result[i].val.supporting_materials,
                       history[i][Max(RaisedAt(i))].msg)

-----------------------------------------------------------------------------
(* Properties of the calls of parse_answer made by query_with_retry, under *)
(* SpecResolve                                                              *)

\* the values the awaited calls of item i returned, in order
ReturnedValues(i) ==
    LET returned == SelectSeq(history[i], LAMBDA o : o.kind = "return")
    IN  [k \in 1..Len(returned) |-> returned[k].val]

-----------------------------------------------------------------------------
(* Properties of the explanation of the failure record of query_with_retry, *)
(* under SpecFailing                                                         *)

\* whether a call of ask of item i returned a text
ResponseObtained(i) ==
    \E k \in 1..Len(history[i]) :
        history[i][k].kind = "return" /\ history[i][k].val # PyNone

\* the last value a call of ask of item i returned
LastReturned(i) == ReturnedValues(i)[Len(ReturnedValues(i))]

\* s.endswith("...")
EndsWithEllipsis(s) == s # <<>> /\ s[Len(s)] = "..."

\* the explanation carries the response r: its first TRUNCATE_AT characters
\* and then the ellipsis when r is longer than that, and r without the
\* surrounding whitespace, and nothing after it, when it is not
CarriesResponse(explanation, r) ==
    IF CharLen(r) > TRUNCATE_AT
    THEN explanation = LAST_RESPONSE_PREFIX \o TakeChars(r, TRUNCATE_AT) \o <<"...">>
    ELSE explanation = Strip(r)

-----------------------------------------------------------------------------
(* Properties of the semaphore during the retries of an item, under         *)
(* SpecBatch                                                                *)

\* the items suspended in the sleep between two passes
Sleeping == {i \in Items : pc[i] = "sleeping"}

\* the items that have issued a call of ask and whose task has not ended
Retrying == {i \in Items : ask_calls[i] > 0 /\ ret[i] = Unset}

\* C24: an item keeps its slot of the semaphore from before its first call
\* of ask until its task has its result, sleeps included: the free slots
\* and the items in that stretch never add up to more than concurrent_limit,
\* a step into or out of a sleep leaves the semaphore as it is, and while
\* concurrent_limit items are sleeping no slot is free and no step issues a
\* call of ask.
C24_GateHeldAcrossRetries ==
    [][/\ semaphore + Cardinality(Retrying) <= concurrent_limit
       /\ \A i \in Items :
              (pc[i] = "sleeping") # (pc'[i] = "sleeping") /\ pc'[i] # "done"
              => semaphore' = semaphore
       /\ Cardinality(Sleeping) = concurrent_limit
          => /\ semaphore = 0
             /\ ask_calls' = ask_calls]_vars

\* every slot is held by a sleeping item while another item waits to enter
C24_Witness ==
    /\ mode = "batch"
    /\ Cardinality(Sleeping) = concurrent_limit
    /\ \E j \in Items : pc[j] = "created" /\ ask_calls[j] = 0

-----------------------------------------------------------------------------
(* Properties of two calls of query_with_retry side by side, under SpecPair *)

\* the two calls have received the same outcomes of ask so far
SameOutcomes(i, j) == history[i] = history[j]

\* the calls of ask a call of query_with_retry has issued and seen end
AsksEnded(i) == ask_calls[i] - (IF pc[i] = "asking" THEN 1 ELSE 0)

\* C25: two calls of query_with_retry for the same question that have
\* received the same outcomes of ask, whatever their quality_threshold,
\* have made the same calls of ask and of parse_answer and the same sleeps,
\* have both ended or both not ended, and have returned the same record.
C25_QualityNeverGatesRetries ==
    \A i \in Items : \A j \in Items :
        SameOutcomes(i, j)
        => /\ AsksEnded(i) = AsksEnded(j)
           /\ parse_calls[i] = parse_calls[j]
           /\ sleeps[i] = sleeps[j]
           /\ (pc[i] = "done") <=> (pc[j] = "done")
           /\ result[i] = result[j]

\* two calls with thresholds 0 and 1.0 that both returned, after one call
\* of ask, a record whose score lies between the two
C25_Witness ==
    /\ mode = "pair"
    /\ quality_threshold = <<0, MAX_SCORE>>
    /\ max_retries = 1
    /\ history[1] = <<AskReturns(PyStr(TEXT_ANSWER_ONLY))>>
    /\ SameOutcomes(1, 2)
    /\ pc = <<"done", "done">>
    /\ result[1].kind = "return"
    /\ calculate_quality_score(result[1].val) \in 1..(MAX_SCORE - 1)
    /\ result[2] = result[1]

-----------------------------------------------------------------------------
(* Properties of parse_answer on texts with an embedded object, under       *)
(* SpecExtract                                                              *)

\* C26: parse_answer returns a record or None for every raw text and never
\* raises; when the text holds a {...} span that _try_parse_json does not
\* turn into a record, the span is ignored and the result is that of the
\* labeled-field stages on the same text.
C26_ExtractIsTotal ==
    parsed # NotParsed
    => /\ parsed.out.kind \in {"record", "none"}
       /\ (/\ ~IsEmptyResponse(rawText)
           /\ try_parse_json(Strip(rawText.v), "q1", "Q1").kind # "record")
          => /\ parsed.stages = <<"json", "patterns">>
             /\ parsed.out = ParseFields(Strip(rawText.v), "q1", "Q1")

\* C27: for a raw text made of the labeled lines of two fields in either
\* order, the value parse_answer gives each of the two fields is the value
\* of its own line: what follows its label up to the next line that starts
\* with a label, or to the end of the text.
C27_FieldBoundaries ==
    \A i \in 1..Len(FieldNames), j \in 1..Len(FieldNames) :
        (/\ i # j
         /\ parsed # NotParsed
         /\ rawText = PyStr(LabeledLine("primary", FieldNames[j]) \o <<NL>>
                            \o LabeledLine("primary", FieldNames[i])))
        => /\ parsed.out.kind = "record"
           /\ \A f \in {FieldNames[i], FieldNames[j]} :
                  RecordField(parsed.out.rec, f) = ExpectedField({f}, f)

-----------------------------------------------------------------------------
(* Properties of the special cases of parse_answer, under SpecExtract *)

\* line is the labeled line of one of the six fields
IsLabeledLine(line) ==
    \E v \in Vocabularies, i \in 1..Len(FieldNames) :
        StartsWith(LowerSeq(line), LowerSeq(LabelText(v, FieldNames[i])) \o <<":">>)

\* parse_answer has run the patterns on rawText and they, with the special
\* case of the refusal, left answer unset
AnswerUnsetAfterPatterns ==
    /\ parsed # NotParsed
    /\ parsed.stages = <<"json", "patterns">>
    /\ Refusal(ParsedFields(Strip(rawText.v)), Strip(rawText.v))["answer"] = IS_BLANK

\* lines[0].strip() of rawText
FirstLineOf(text) == Strip(Split(Strip(text.v), NL)[1])

\* C28: when the earlier stages left answer unset, parse_answer returns a
\* record whose answer is the first line of the text if that line is longer
\* than 10 characters, does not start an embedded object and is not a
\* labeled line of one of the six fields, and returns None otherwise.
C28_FirstLineHeuristic ==
    AnswerUnsetAfterPatterns
    => IF /\ CharLen(FirstLineOf(rawText)) > MIN_FIRST_LINE
          /\ ~StartsWith(FirstLineOf(rawText), <<"{">>)
          /\ ~IsLabeledLine(FirstLineOf(rawText))
       THEN /\ parsed.out.kind = "record"
            /\ parsed.out.rec.answer = FirstLineOf(rawText)
       ELSE parsed.out.kind = "none"

\* the patterns find no value for any field in text
NoFieldFound(text) ==
    \A i \in 1..Len(FieldNames) : FieldValue(FieldNames[i], text) = IS_BLANK

\* C29: when parse_answer runs the patterns on a text, they find no field
\* and the text holds "unable to answer" in any letter case, it returns a
\* record (not None) whose answer is the canonical refusal sentence, not
\* the first line of the text, and whose other fields are "is_blank", with
\* an empty ref_id.
C29_ExplicitRefusal ==
    (/\ parsed # NotParsed
     /\ parsed.stages = <<"json", "patterns">>
     /\ NoFieldFound(Strip(rawText.v))
     /\ Contains(LowerSeq(rawText.v), UNABLE_TO_ANSWER))
    => /\ parsed.out.kind = "record"
       /\ parsed.out.rec.answer = REFUSAL_ANSWER
       /\ parsed.out.rec.ref_id = <<>>
       /\ \A f \in {"answer_value", "answer_unit", "supporting_materials", "explanation"} :
              RecordField(parsed.out.rec, f) = IS_BLANK

\* the phrase in another letter case after another word, in a first line
\* long enough to be taken as the answer
C29_Witness ==
    /\ parsed # NotParsed
    /\ rawText \in {PyStr(<<"x", SP, "unable", SP, "to", SP, "answer">>),
                    PyStr(<<"unable", SP, "to", SP, "ANSWER">>)}
    /\ CharLen(FirstLineOf(rawText)) > MIN_FIRST_LINE
    /\ parsed.out.kind = "record"
    /\ parsed.out.rec.answer = REFUSAL_ANSWER

-----------------------------------------------------------------------------
(* Properties of the validator of ref_id, under SpecRefId *)

\* s.startswith('[') and s.endswith(']')
ArrayLooking(s) == s # <<>> /\ s[1] = "[" /\ s[Len(s)] = "]"

\* s without the surrounding spaces and then without the surrounding quotes
Trimmed(s) == StripSet(Strip(s), QuoteChars)

\* what the rules give for a str s that is stripped, is not empty and is not
\* the sentinel, in the cases other than the array
SplitOrSingle(s) ==
    IF \E k \in 1..Len(s) : s[k] = ","
    THEN [k \in 1..Len(Split(s, ",")) |-> PyStr(Trimmed(Split(s, ",")[k]))]
    ELSE <<PyStr(Trimmed(s))>>

\* C30: for every str, the validator of ref_id returns a list: the empty
\* list for a blank string or the sentinel; for a string in brackets the
\* elements of the array it writes (those json.loads gives, and in no case
\* pieces of the string with a bracket left on them); otherwise the
\* pieces between the commas, or the one token, each without its surrounding
\* spaces and quotes, in the order of the string.
C30_RefIdNormalization ==
    (mode = "ref_id" /\ call_out # Unset)
    => /\ call_out.kind = "return"
       /\ call_out.val.t = "list"
       /\ IF Strip(call_arg.v) \in {<<>>, IS_BLANK}
          THEN call_out.val.v = <<>>
          ELSE IF ArrayLooking(Strip(call_arg.v))
          THEN /\ JsonLoads(Strip(call_arg.v)).ok
                  => call_out.val = JsonLoads(Strip(call_arg.v)).val
               /\ \A k \in 1..Len(call_out.val.v) :
                      /\ ~StartsWith(call_out.val.v[k].v, <<"[">>)
                      /\ ~(call_out.val.v[k].v # <<>>
                           /\ call_out.val.v[k].v[Len(call_out.val.v[k].v)] = "]")
          ELSE call_out.val.v = SplitOrSingle(Strip(call_arg.v))

\* C31: for a raw text with the line of answer and a line of ref_id whose
\* bracketed value is not a list of strings, parse_answer still returns a
\* record: answer is kept, ref_id takes its default, the empty list, and
\* the fields without a line are "is_blank".
C31_ValidationFailureIsFieldMiss ==
    \A r \in InvalidRefValues :
        (parsed # NotParsed /\ rawText = PyStr(AnswerAndRefText(r)))
        => /\ parsed.out.kind = "record"
           /\ parsed.out.rec.answer = CollapseWs(ValueText("answer"))
           /\ parsed.out.rec.ref_id = <<>>
           /\ \A f \in {"answer_value", "answer_unit", "supporting_materials",
                        "explanation"} :
                  RecordField(parsed.out.rec, f) = IS_BLANK

\* C32: every record parse_answer returns has as id and question the
\* arguments question_id and question_text of the call, "q1" and "Q1" here,
\* whatever the raw text holds, an embedded object with the keys id and
\* question included.
C32_IdAndQuestionFromCaller ==
    (parsed # NotParsed /\ parsed.out.kind = "record")
    => /\ parsed.out.rec.id = "q1"
       /\ parsed.out.rec.question = "Q1"

\* the record of an embedded object that holds another id and question
C32_Witness ==
    /\ parsed # NotParsed
    /\ rawText = PyStr(TEXT_JSON_WITH_ID)
    /\ parsed.stages = <<"json">>
    /\ parsed.out.kind = "record"
    /\ parsed.out.rec.answer = <<"42">>
    /\ parsed.out.rec.id = "q1"

-----------------------------------------------------------------------------
(* Properties of the items of a batch, under SpecBatch *)

\* the output of item i as its own question, its own outcomes of ask and
\* the exception caught in its own task give it
OwnOutput(i) ==
    IF caught[i] = PyNone
    THEN Replay(questions[i], max_retries, retry_delay, history[i], 0, PyNone, PyNone).val
    ELSE create_failure_record(questions[i].id, questions[i].question, PyNone, caught[i])

\* C33: the record process_batch returns for an item is a function of the
\* item's own question, its own outcomes of ask and what happened in its own
\* task, whatever the outcomes, the failures and the interleaving of the
\* other items of the batch.
C33_ItemIsolation ==
    batch_pc = "returned"
    => \A i \in Items : processed_results[i] = OwnOutput(i)

\* a batch of two items that ran at the same time, the first answered and
\* the second failed on every call
C33_Witness ==
    /\ batch_pc = "returned"
    /\ Len(questions) = 2
    /\ concurrent_limit = 2
    /\ finished = <<1, 2>>
    /\ history[1] = <<AskReturns(PyStr(TEXT_ANSWER_ONLY))>>
    /\ \A k \in 1..Len(history[2]) : history[2][k].kind = "raise"
    /\ processed_results[1].answer = <<"42">>
    /\ processed_results[2].answer = QUERY_FAILED
    /\ processed_results[2].explanation = NO_RESPONSE

\* C34: when the batch has returned, the output of every item for which
\* query_with_retry returned a record is that record, whether the progress
\* callback returned or raised.
C34_CallbackCannotChangeResults ==
    batch_pc = "returned"
    => \A i \in Items :
          result[i] # Unset /\ result[i].kind = "return"
          => processed_results[i] = result[i].val

\* C35: on a fair event loop with asks that always end, every item of a batch
\* that waits at the gate gets a slot, every task ends and process_batch
\* returns, for every concurrent_limit >= 1 and every number of items.
C35_BatchTermination ==
    /\ \A i \in 1..MaxQuestions :
          (i \in Items /\ pc[i] = "created") ~> (i \in Items /\ pc[i] # "created")
    /\ \A i \in 1..MaxQuestions :
          (i \in Items /\ pc[i] # "done") ~> (i \in Items /\ pc[i] = "done")
    /\ (batch_pc = "gather") ~> (batch_pc = "returned")

\* a batch with more items than slots has returned: an item had to wait at
\* the gate for the slot of another
C35_Witness ==
    /\ batch_pc = "returned"
    /\ Len(questions) > concurrent_limit
    /\ \A i \in Items : pc[i] = "done" /\ ask_calls[i] > 0
    /\ semaphore = concurrent_limit

-----------------------------------------------------------------------------
(* The synchronous orchestrators against query_with_retry *)

RECURSIVE ReplayRun(_, _, _, _, _, _, _, _, _)
\* query_with_retry run alone on question q against the ask outcomes hist,
\* from pass att on: what it returns, the calls of rag.aquery it makes and
\* the delays it sleeps
ReplayRun(q, maxr, delay, hist, att, response, error, calls, slept) ==
    IF hist = <<>> THEN [ret |-> Unset, calls |-> calls, sleeps |-> slept]
    ELSE LET step == LoopBody(q, att, maxr, delay, response, error, Head(hist))
             now == IF step.next = "sleep" THEN Append(slept, step.delay) ELSE slept
         IN  CASE step.next = "return" ->
                     [ret |-> Returned(step.val), calls |-> calls + 1, sleeps |-> now]
               [] step.next \in {"sleep", "continue"} ->
                     IF InRange(att + 1, maxr)
                     THEN ReplayRun(q, maxr, delay, Tail(hist), att + 1,
                                    step.response, step.error, calls + 1, now)
                     ELSE [ret |-> Returned(LoopExhausted(q, step.response, step.error)),
                           calls |-> calls + 1, sleeps |-> now]
               [] OTHER -> [ret |-> Raised(step.exc), calls |-> calls + 1, sleeps |-> now]

\* the texts query_lightrag handed to the synchronous loop, as outcomes of
\* rag.aquery
TextsReturned(i) == [k \in 1..Len(history[i]) |-> AskReturns(query_lightrag(history[i][k], mode))]

-----------------------------------------------------------------------------
(* The time slept by a call that runs out of passes, under SpecFailing *)

\* C37: when query_with_retry has ended after max_retries + 1 failed passes,
\* it slept retry_delay * 1, ..., retry_delay * max_retries in that order,
\* retry_delay * max_retries * (max_retries + 1) / 2 in all, and nothing when
\* max_retries = 0.
C37_TotalBackoff ==
    \A i \in Items :
        (/\ pc[i] = "done"
         /\ Len(history[i]) = max_retries + 1
         /\ \A k \in 1..Len(history[i]) : AttemptFailed(i, k))
        => /\ sleeps[i] = [k \in 1..max_retries |-> retry_delay * k]
           /\ 2 * SumOf(sleeps[i]) = retry_delay * max_retries * (max_retries + 1)
           /\ max_retries = 0 => SumOf(sleeps[i]) = 0

\* max_retries = 2 and retry_delay = 2: three passes failed, one of them
\* because ask raised, and the call slept 2 and 4, 6 in all
C37_Witness ==
    /\ mode = "resolve"
    /\ pc[1] = "done"
    /\ max_retries = 2
    /\ retry_delay = 2
    /\ Len(history[1]) = 3
    /\ history[1][2].kind = "raise"
    /\ sleeps[1] = <<2, 4>>
    /\ SumOf(sleeps[1]) = 6
    /\ result[1].val.answer = QUERY_FAILED

-----------------------------------------------------------------------------
(* The calls of the progress callback, under SpecBatch *)

\* C38: when the batch has returned and no call of the progress callback
\* raised, the callback was called exactly once for every question, after
\* query_with_retry had ended for it, with total the number of questions and
\* with a completed count equal to the number of questions whose processing
\* had ended by then: the counts of the calls, in the order the tasks ended in,
\* are 0, 1, 2, ... when the question of the call is not counted, or
\* 1, 2, 3, ... when it is.
C38_ProgressReporting ==
    (batch_pc = "returned" /\ has_callback /\ \A i \in Items : caught[i] = PyNone)
    => /\ \A i \in Items :
             /\ Len(callbacks[i]) = 1
             /\ callbacks[i][1].id = questions[i].id
             /\ callbacks[i][1].total = Len(questions)
             /\ result[i] # Unset
       /\ \/ \A k \in 1..Len(finished) : callbacks[finished[k]][1].completed = k - 1
          \/ \A k \in 1..Len(finished) : callbacks[finished[k]][1].completed = k

-----------------------------------------------------------------------------
(* Several calls of process_batch on one BatchRAGQuery, under SpecCalls *)

\* the items of call c that are inside query_with_retry
InFlightOf(c) == {i \in InFlight : batch_of[i] = c}

\* C39: the items inside query_with_retry, counted call by call and summed
\* over the calls of process_batch under way on one BatchRAGQuery, are never
\* more than concurrent_limit, and the slots of its one semaphore and the
\* items of all the calls that hold one add up to concurrent_limit.
C39_GateSharedByCalls ==
    mode = "calls"
    => /\ SumOf([c \in 1..MaxCalls |-> Cardinality(InFlightOf(c))]) <= concurrent_limit
       /\ semaphore + Cardinality(Holders) = concurrent_limit
       /\ semaphore >= 0

\* two calls with one question each on a BatchRAGQuery of one slot: the item
\* of one call is inside query_with_retry while the item of the other call
\* waits at the gate
C39_Witness ==
    /\ mode = "calls"
    /\ concurrent_limit = 1
    /\ Len(questions) = 2
    /\ batch_of[1] # batch_of[2]
    /\ \E i \in Items : pc[i] = "asking"
    /\ \E j \in Items : pc[j] = "created"
    /\ semaphore = 0

=============================================================================
